---- MODULE Spec2Model ----
(***************************************************************************)
(* Fixed-capacity bitmaps of the fixed_bitmaps crate.                      *)
(*                                                                         *)
(* Two of the crate's types are modelled:                                  *)
(*   - BitmapKB (src/src/oversized/bitmap_kb.rs), the multi-word bitmap    *)
(*     backed by [usize; ELEMENT_COUNT]; Bitmap1024 and Bitmap4096 are the *)
(*     same text with another MAP_LENGTH;                                  *)
(*   - Bitmap128 (src/src/primitives/bitmap128.rs), the single-word bitmap *)
(*     backed by one u128; the other primitives are the same text with     *)
(*     another integer type;                                               *)
(*   - Bitmap8 (src/src/primitives/bitmap8.rs), at its real width of 8     *)
(*     bits, for the range operations, whose value = false mask it builds  *)
(*     by cases of its own.                                                *)
(* Word widths and word counts are scaled down; every operator is written  *)
(* for an arbitrary width and count.                                       *)
(*                                                                         *)
(* A behaviour constructs one bitmap (From of any word array / integer)    *)
(* and applies one operation to it.  `before` keeps the receiver as it was *)
(* when the operation was called, `result` the bitmap an operation         *)
(* returned, `ret` the returned Result / Option / panic.                   *)
(*                                                                         *)
(* Two more specifications follow the crate's equality tests: SpecBuild    *)
(* builds two multi-word bitmaps from default() by set calls and compares  *)
(* them; Spec1024 is equality_test of Bitmap1024, at its real capacity.    *)
(***************************************************************************)
EXTENDS Integers, Sequences, FiniteSets, TLC

\* ------------------------------------------------------------------ bounds

\* bits of one usize word (mem::size_of::<usize>() * 8 in the crate), scaled
WordBits == 2
\* words of the multi-word bitmap (8_192 / 64 in the crate), scaled
WordCount == 2
\* bits of the u128 behind Bitmap128, scaled
PrimBits == 3
\* how far past the capacity the index inputs reach
IndexSlack == 2

\* longest sequence of scalar additions applied to one bitmap
MaxAdds == 6

\* ------------------------------------------------- machine-word primitives

\* x & y on unsigned integers
RECURSIVE and_bits(_, _)
and_bits(x, y) ==
    IF x = 0 \/ y = 0 THEN 0
    ELSE (x % 2) * (y % 2) + 2 * and_bits(x \div 2, y \div 2)

\* x | y on unsigned integers
RECURSIVE or_bits(_, _)
or_bits(x, y) ==
    IF x = 0 THEN y
    ELSE IF y = 0 THEN x
    ELSE ((x % 2) + (y % 2) - (x % 2) * (y % 2)) + 2 * or_bits(x \div 2, y \div 2)

\* x ^ y on unsigned integers
RECURSIVE xor_bits(_, _)
xor_bits(x, y) ==
    IF x = 0 THEN y
    ELSE IF y = 0 THEN x
    ELSE (((x % 2) + (y % 2)) % 2) + 2 * xor_bits(x \div 2, y \div 2)

\* x << n on a word of `width` bits: high bits are dropped.  The shift amount
\* is checked by the callers (a shift by >= width panics).
shl(x, n, width) == (x * (2 ^ n)) % (2 ^ width)

\* x >> n on an unsigned word
shr(x, n) == x \div (2 ^ n)

\* a shift of a word of `width` bits by n faults (panics in a build with
\* overflow checks) when n is not below the width; so does the usize
\* subtraction that computes n when it goes below zero
shift_faults(n, width) == n < 0 \/ n >= width

\* the outcome of +, - or * on unsigned words of `width` bits whose
\* mathematical result is v: when v is not representable, a build with
\* overflow checks panics and a build without them wraps
arith(v, width, checks) ==
    IF v < 0 \/ v >= 2 ^ width
    THEN IF checks THEN [ret |-> "Panic", val |-> 0]
         ELSE [ret |-> "Unit", val |-> v % (2 ^ width)]
    ELSE [ret |-> "Unit", val |-> v]

\* the outcome of x / y on unsigned words: division by zero panics in every
\* build
divided(x, y) ==
    IF y = 0 THEN [ret |-> "Panic", val |-> 0]
    ELSE [ret |-> "Unit", val |-> x \div y]

\* x.wrapping_add(y) on a word of `width` bits
wrapping_add(x, y, width) == (x + y) % (2 ^ width)

\* ---------------------------------------------------------------- BitmapKB

ELEMENT_SIZE == WordBits

MAP_LENGTH == WordCount * WordBits

ELEMENT_COUNT == MAP_LENGTH \div ELEMENT_SIZE

usize_MAX == (2 ^ ELEMENT_SIZE) - 1

Words == 0 .. usize_MAX

\* [usize; ELEMENT_COUNT], indexed from 0 as in the source
Arrays == [0 .. (ELEMENT_COUNT - 1) -> Words]

\* usize index inputs: in range, the capacity itself, and past it
Indices == 0 .. (MAP_LENGTH + IndexSlack)

KB(arr) == [kind |-> "KB", words |-> arr]

BitmapKB_default == KB([k \in 0 .. (ELEMENT_COUNT - 1) |-> 0])

\* new(true) that sets only the lowest bit of each word
BitmapKB_new_one(value) ==
    KB(IF value THEN [k \in 0 .. (ELEMENT_COUNT - 1) |-> 1]
                ELSE [k \in 0 .. (ELEMENT_COUNT - 1) |-> 0])

BitmapKB_new(value) ==
    KB(IF value THEN [k \in 0 .. (ELEMENT_COUNT - 1) |-> usize_MAX]
                ELSE [k \in 0 .. (ELEMENT_COUNT - 1) |-> 0])

\* an equality that looks at the least significant word only
BitmapKB_eq_last_word(self, other) ==
    self.words[ELEMENT_COUNT - 1] = other.words[ELEMENT_COUNT - 1]

\* the derived PartialEq: the arrays are equal element by element
BitmapKB_eq(self, other) ==
    \A k \in 0 .. (ELEMENT_COUNT - 1) : self.words[k] = other.words[k]

\* the array comparison from element k on
RECURSIVE cmp_from(_, _, _)
cmp_from(x, y, k) ==
    IF k > ELEMENT_COUNT - 1 THEN "Equal"
    ELSE IF x[k] < y[k] THEN "Less"
    ELSE IF x[k] > y[k] THEN "Greater"
    ELSE cmp_from(x, y, k + 1)

\* the array comparison from element k down
RECURSIVE cmp_down_from(_, _, _)
cmp_down_from(x, y, k) ==
    IF k < 0 THEN "Equal"
    ELSE IF x[k] < y[k] THEN "Less"
    ELSE IF x[k] > y[k] THEN "Greater"
    ELSE cmp_down_from(x, y, k - 1)

\* a comparison that starts at the last array element
BitmapKB_cmp_from_last(self, other) ==
    cmp_down_from(self.words, other.words, ELEMENT_COUNT - 1)

\* the derived Ord: the arrays compare lexicographically from element 0
BitmapKB_cmp(self, other) == cmp_from(self.words, other.words, 0)

\* the derived PartialOrd: a < b
BitmapKB_lt(self, other) == BitmapKB_cmp(self, other) = "Less"

BitmapKB_from(arr) == KB(arr)

\* get_element_location with the words least-significant first
get_element_location_lsw_first(bit_index) == bit_index \div ELEMENT_SIZE

\* usize arithmetic: a negative value here is an underflow of the subtraction
get_element_location(bit_index) ==
    ELEMENT_COUNT - 1 - (bit_index \div ELEMENT_SIZE)

\* what get/set do to reach self.0[element_location]: the subtraction
\* underflows or the array index is out of bounds => panic
location_faults(loc) == loc < 0 \/ loc > ELEMENT_COUNT - 1

Ok(b) == [tag |-> "Ok", val |-> b]
Err == [tag |-> "Err", val |-> FALSE]
Panic == [tag |-> "Panic", val |-> FALSE]
Unit == [tag |-> "Unit", val |-> FALSE]
Some == [tag |-> "Some", val |-> FALSE]
None == [tag |-> "None", val |-> FALSE]

\* get that tests the whole word instead of the masked bit
BitmapKB_get_whole_word(self, index) ==
    IF index >= MAP_LENGTH THEN Err
    ELSE LET element_location == get_element_location(index)
         IN  IF location_faults(element_location) THEN Panic
             ELSE Ok(self.words[element_location] > 0)

BitmapKB_get(self, index) ==
    IF index >= MAP_LENGTH THEN Err
    ELSE LET element_location == get_element_location(index)
             mask == shl(1, index % ELEMENT_SIZE, ELEMENT_SIZE)
         IN  IF location_faults(element_location) THEN Panic
             ELSE Ok(and_bits(self.words[element_location], mask) > 0)

\* set whose range check lets the capacity itself through
BitmapKB_set_off_by_one(self, index, value) ==
    IF index > MAP_LENGTH THEN [ret |-> Err, self |-> self]
    ELSE LET element_location == get_element_location(index)
             bit == shl(1, index % ELEMENT_SIZE, ELEMENT_SIZE)
         IN  IF location_faults(element_location)
             THEN [ret |-> Panic, self |-> self]
             ELSE IF value
             THEN [ret |-> Ok(FALSE),
                   self |-> KB([self.words EXCEPT ![element_location] =
                                   or_bits(@, bit)])]
             ELSE [ret |-> Ok(FALSE),
                   self |-> KB([self.words EXCEPT ![element_location] =
                                   and_bits(@, usize_MAX - bit)])]

\* set whose mask is 1 << index, without the reduction modulo ELEMENT_SIZE
BitmapKB_set_shift_by_index(self, index, value) ==
    IF index >= MAP_LENGTH THEN [ret |-> Err, self |-> self]
    ELSE LET element_location == get_element_location(index)
             bit == shl(1, index, ELEMENT_SIZE)
         IN  IF location_faults(element_location)
             THEN [ret |-> Panic, self |-> self]
             ELSE IF value
             THEN [ret |-> Ok(FALSE),
                   self |-> KB([self.words EXCEPT ![element_location] =
                                   or_bits(@, bit)])]
             ELSE [ret |-> Ok(FALSE),
                   self |-> KB([self.words EXCEPT ![element_location] =
                                   and_bits(@, usize_MAX - bit)])]

\* returns the Result and the receiver after the call
\* set whose value = false arm clears the whole target word
BitmapKB_set_clear_word(self, index, value) ==
    IF index >= MAP_LENGTH THEN [ret |-> Err, self |-> self]
    ELSE LET element_location == get_element_location(index)
             bit == shl(1, index % ELEMENT_SIZE, ELEMENT_SIZE)
         IN  IF value
             THEN [ret |-> Ok(FALSE),
                   self |-> KB([self.words EXCEPT ![element_location] =
                                   or_bits(@, bit)])]
             ELSE [ret |-> Ok(FALSE),
                   self |-> KB([self.words EXCEPT ![element_location] = 0])]

BitmapKB_set(self, index, value) ==
    IF index >= MAP_LENGTH THEN [ret |-> Err, self |-> self]
    ELSE LET element_location == get_element_location(index)
             bit == shl(1, index % ELEMENT_SIZE, ELEMENT_SIZE)
         IN  IF location_faults(element_location)
             THEN [ret |-> Panic, self |-> self]
             ELSE IF value
             THEN [ret |-> Ok(FALSE),
                   self |-> KB([self.words EXCEPT ![element_location] =
                                   or_bits(@, bit)])]
             ELSE [ret |-> Ok(FALSE),
                   self |-> KB([self.words EXCEPT ![element_location] =
                                   and_bits(@, usize_MAX - bit)])]

\* from_set whose range check lets the capacity itself through
BitmapKB_from_set_off_by_one(index) ==
    IF index > MAP_LENGTH THEN [ret |-> None, bitmap |-> BitmapKB_default]
    ELSE LET r == BitmapKB_set(BitmapKB_default, index, TRUE)
         IN  IF r.ret.tag = "Ok" THEN [ret |-> Some, bitmap |-> r.self]
             ELSE [ret |-> Panic, bitmap |-> BitmapKB_default]

\* returns the Option tag and the bitmap inside Some
BitmapKB_from_set(index) ==
    IF index >= MAP_LENGTH THEN [ret |-> None, bitmap |-> BitmapKB_default]
    ELSE LET r == BitmapKB_set(BitmapKB_default, index, TRUE)
         IN  IF r.ret.tag = "Ok" THEN [ret |-> Some, bitmap |-> r.self]
             ELSE [ret |-> Panic, bitmap |-> BitmapKB_default]

\* bitand that reads self where it should read rhs
BitmapKB_bitand_self(self, rhs) ==
    KB([i \in 0 .. (ELEMENT_COUNT - 1) |-> and_bits(self.words[i], self.words[i])])

\* bitand with the loop body of bitor
BitmapKB_bitand_as_or(self, rhs) ==
    KB([i \in 0 .. (ELEMENT_COUNT - 1) |-> or_bits(self.words[i], rhs.words[i])])

\* for i in 0..ELEMENT_COUNT { bitmap[i] &= rhs.0[i]; }
BitmapKB_bitand(self, rhs) ==
    KB([i \in 0 .. (ELEMENT_COUNT - 1) |-> and_bits(self.words[i], rhs.words[i])])

\* bitor that pairs word i of self with word ELEMENT_COUNT - 1 - i of rhs
BitmapKB_bitor_misaligned(self, rhs) ==
    KB([i \in 0 .. (ELEMENT_COUNT - 1) |->
           or_bits(self.words[i], rhs.words[ELEMENT_COUNT - 1 - i])])

\* for i in 0..ELEMENT_COUNT { bitmap[i] |= rhs.0[i]; }
BitmapKB_bitor(self, rhs) ==
    KB([i \in 0 .. (ELEMENT_COUNT - 1) |-> or_bits(self.words[i], rhs.words[i])])

\* for i in 0..ELEMENT_COUNT { bitmap[i] ^= rhs.0[i]; }
BitmapKB_bitxor(self, rhs) ==
    KB([i \in 0 .. (ELEMENT_COUNT - 1) |-> xor_bits(self.words[i], rhs.words[i])])

\* for i in 0..ELEMENT_COUNT { self.0[i] &= rhs.0[i]; }
BitmapKB_bitand_assign(self, rhs) ==
    KB([i \in 0 .. (ELEMENT_COUNT - 1) |-> and_bits(self.words[i], rhs.words[i])])

\* for i in 0..ELEMENT_COUNT { self.0[i] |= rhs.0[i]; }
BitmapKB_bitor_assign(self, rhs) ==
    KB([i \in 0 .. (ELEMENT_COUNT - 1) |-> or_bits(self.words[i], rhs.words[i])])

\* bitxor_assign that ORs
BitmapKB_bitxor_assign_as_or(self, rhs) ==
    KB([i \in 0 .. (ELEMENT_COUNT - 1) |-> or_bits(self.words[i], rhs.words[i])])

\* for i in 0..ELEMENT_COUNT { self.0[i] ^= rhs.0[i]; }
BitmapKB_bitxor_assign(self, rhs) ==
    KB([i \in 0 .. (ELEMENT_COUNT - 1) |-> xor_bits(self.words[i], rhs.words[i])])

\* The operators with a raw [usize; ELEMENT_COUNT] on the right.

BitmapKB_bitand_array(self, rhs) ==
    KB([i \in 0 .. (ELEMENT_COUNT - 1) |-> and_bits(self.words[i], rhs[i])])

BitmapKB_bitand_assign_array(self, rhs) ==
    KB([i \in 0 .. (ELEMENT_COUNT - 1) |-> and_bits(self.words[i], rhs[i])])

BitmapKB_bitor_array(self, rhs) ==
    KB([i \in 0 .. (ELEMENT_COUNT - 1) |-> or_bits(self.words[i], rhs[i])])

BitmapKB_bitor_assign_array(self, rhs) ==
    KB([i \in 0 .. (ELEMENT_COUNT - 1) |-> or_bits(self.words[i], rhs[i])])

BitmapKB_bitxor_array(self, rhs) ==
    KB([i \in 0 .. (ELEMENT_COUNT - 1) |-> xor_bits(self.words[i], rhs[i])])

BitmapKB_bitxor_assign_array(self, rhs) ==
    KB([i \in 0 .. (ELEMENT_COUNT - 1) |-> xor_bits(self.words[i], rhs[i])])

\* the loop with `<=` for `<` in the overflow test
RECURSIVE add_loop_le(_, _, _)
add_loop_le(bitmap, carry, i) ==
    IF i < 0 THEN [bitmap |-> bitmap, carry |-> carry, fault |-> FALSE]
    ELSE IF usize_MAX - carry < 0
    THEN [bitmap |-> bitmap, carry |-> carry, fault |-> TRUE]
    ELSE IF usize_MAX - carry <= bitmap[i]
    THEN add_loop_le([bitmap EXCEPT ![i] = wrapping_add(@, carry, ELEMENT_SIZE)],
                     1, i - 1)
    ELSE IF bitmap[i] + carry > usize_MAX
    THEN [bitmap |-> bitmap, carry |-> carry, fault |-> TRUE]
    ELSE [bitmap |-> [bitmap EXCEPT ![i] = @ + carry], carry |-> 0,
          fault |-> FALSE]

\* the loop with the overflow test the wrong way round
RECURSIVE add_loop_reversed(_, _, _)
add_loop_reversed(bitmap, carry, i) ==
    IF i < 0 THEN [bitmap |-> bitmap, carry |-> carry, fault |-> FALSE]
    ELSE IF usize_MAX - carry < 0
    THEN [bitmap |-> bitmap, carry |-> carry, fault |-> TRUE]
    ELSE IF usize_MAX - carry > bitmap[i]
    THEN add_loop_reversed(
             [bitmap EXCEPT ![i] = wrapping_add(@, carry, ELEMENT_SIZE)],
             1, i - 1)
    ELSE IF bitmap[i] + carry > usize_MAX
    THEN [bitmap |-> bitmap, carry |-> carry, fault |-> TRUE]
    ELSE [bitmap |-> [bitmap EXCEPT ![i] = @ + carry], carry |-> 0,
          fault |-> FALSE]

\* the loop leaving after the first wrapped word, its carry never reaching
\* the next word
add_loop_stops_at_wrap(bitmap, carry, i) ==
    IF i < 0 THEN [bitmap |-> bitmap, carry |-> carry, fault |-> FALSE]
    ELSE IF usize_MAX - carry < 0
    THEN [bitmap |-> bitmap, carry |-> carry, fault |-> TRUE]
    ELSE IF usize_MAX - carry < bitmap[i]
    THEN [bitmap |-> [bitmap EXCEPT ![i] = wrapping_add(@, carry,
                                                        ELEMENT_SIZE)],
          carry |-> 1, fault |-> FALSE]
    ELSE IF bitmap[i] + carry > usize_MAX
    THEN [bitmap |-> bitmap, carry |-> carry, fault |-> TRUE]
    ELSE [bitmap |-> [bitmap EXCEPT ![i] = @ + carry], carry |-> 0,
          fault |-> FALSE]

\* The loop of add / add_assign, `for i in (0..ELEMENT_COUNT).rev()`, from
\* word i downwards.  `fault` is raised where the checked arithmetic of the
\* loop would overflow: usize::MAX - carry below 0, or bitmap[i] += carry
\* above usize::MAX.
RECURSIVE add_loop(_, _, _)
add_loop(bitmap, carry, i) ==
    IF i < 0 THEN [bitmap |-> bitmap, carry |-> carry, fault |-> FALSE]
    ELSE IF usize_MAX - carry < 0
    THEN [bitmap |-> bitmap, carry |-> carry, fault |-> TRUE]
    ELSE IF usize_MAX - carry < bitmap[i]
    THEN add_loop([bitmap EXCEPT ![i] = wrapping_add(@, carry, ELEMENT_SIZE)],
                  1, i - 1)
    ELSE IF bitmap[i] + carry > usize_MAX
    THEN [bitmap |-> bitmap, carry |-> carry, fault |-> TRUE]
    ELSE [bitmap |-> [bitmap EXCEPT ![i] = @ + carry], carry |-> 0,
          fault |-> FALSE]

\* returns the sum, the number of warnings written to stderr and whether the
\* call completed
BitmapKB_add(self, rhs) ==
    LET r == add_loop(self.words, rhs, ELEMENT_COUNT - 1)
    IN  [bitmap |-> KB(r.bitmap),
         warnings |-> IF ~r.fault /\ r.carry > 0 THEN 1 ELSE 0,
         ret |-> IF r.fault THEN Panic ELSE Unit]

\* add_assign that adds into a temporary and leaves the receiver alone
BitmapKB_add_assign_on_copy(self, rhs) ==
    LET r == add_loop(self.words, rhs, ELEMENT_COUNT - 1)
    IN  [self |-> self,
         warnings |-> IF ~r.fault /\ r.carry > 0 THEN 1 ELSE 0,
         ret |-> IF r.fault THEN Panic ELSE Unit]

\* add_assign that never writes the warning
BitmapKB_add_assign_silent(self, rhs) ==
    LET r == add_loop(self.words, rhs, ELEMENT_COUNT - 1)
    IN  [self |-> KB(r.bitmap),
         warnings |-> 0,
         ret |-> IF r.fault THEN Panic ELSE Unit]

\* the same loop on self.0 in place
BitmapKB_add_assign(self, rhs) ==
    LET r == add_loop(self.words, rhs, ELEMENT_COUNT - 1)
    IN  [self |-> KB(r.bitmap),
         warnings |-> IF ~r.fault /\ r.carry > 0 THEN 1 ELSE 0,
         ret |-> IF r.fault THEN Panic ELSE Unit]

\* --------------------------------------------------------------- Bitmap128

Bitmap128_MAP_LENGTH == PrimBits

u128_MAX == (2 ^ PrimBits) - 1

U128 == 0 .. u128_MAX

PrimIndices == 0 .. (Bitmap128_MAP_LENGTH + IndexSlack)

B128(v) == [kind |-> "B128", words |-> v]

Bitmap128_default == B128(0)

Bitmap128_new(value) == B128(IF value THEN u128_MAX ELSE 0)

Bitmap128_from(v) == B128(v)

Bitmap128_get(self, index) ==
    IF index >= Bitmap128_MAP_LENGTH THEN Err
    ELSE LET mask == shl(1, index, PrimBits)
         IN  Ok(and_bits(self.words, mask) > 0)

Bitmap128_set(self, index, value) ==
    IF index >= Bitmap128_MAP_LENGTH THEN [ret |-> Err, self |-> self]
    ELSE IF value
    THEN [ret |-> Ok(FALSE),
          self |-> B128(or_bits(self.words, shl(1, index, PrimBits)))]
    ELSE [ret |-> Ok(FALSE),
          self |-> B128(and_bits(self.words,
                                 u128_MAX - shl(1, index, PrimBits)))]

Bitmap128_from_set(index) ==
    IF index >= Bitmap128_MAP_LENGTH
    THEN [ret |-> None, bitmap |-> Bitmap128_default]
    ELSE LET r == Bitmap128_set(Bitmap128_default, index, TRUE)
         IN  IF r.ret.tag = "Ok" THEN [ret |-> Some, bitmap |-> r.self]
             ELSE [ret |-> Panic, bitmap |-> Bitmap128_default]

Bitmap128_bitand(self, rhs) == B128(and_bits(self.words, rhs.words))

Bitmap128_bitor(self, rhs) == B128(or_bits(self.words, rhs.words))

Bitmap128_bitxor(self, rhs) == B128(xor_bits(self.words, rhs.words))

Bitmap128_not(self) == B128(xor_bits(self.words, u128_MAX))

Bitmap128_bitand_assign(self, rhs) == B128(and_bits(self.words, rhs.words))

Bitmap128_bitor_assign(self, rhs) == B128(or_bits(self.words, rhs.words))

\* create_bit_mask whose end is inclusive
Bitmap128_create_bit_mask_inclusive(begin, end, value) ==
    LET t == IF begin >= Bitmap128_MAP_LENGTH \/ end < 1 THEN 0
             ELSE IF end >= Bitmap128_MAP_LENGTH - 1
             THEN shl(u128_MAX, begin, PrimBits)
             ELSE and_bits(shl(u128_MAX, begin, PrimBits),
                           shr(u128_MAX, Bitmap128_MAP_LENGTH - end - 1))
    IN  [ret |-> Unit,
         bitmap |-> IF value THEN B128(t) ELSE Bitmap128_not(B128(t))]

\* create_bit_mask without the branch that clamps end to the capacity
Bitmap128_create_bit_mask_unclamped(begin, end, value) ==
    LET f == begin < Bitmap128_MAP_LENGTH /\ end >= 1
             /\ (shift_faults(begin, PrimBits)
                   \/ shift_faults(Bitmap128_MAP_LENGTH - end, PrimBits))
        t == IF begin >= Bitmap128_MAP_LENGTH \/ end < 1 \/ f THEN 0
             ELSE and_bits(shl(u128_MAX, begin, PrimBits),
                           shr(u128_MAX, Bitmap128_MAP_LENGTH - end))
    IN  [ret |-> IF f THEN Panic ELSE Unit,
         bitmap |-> IF value THEN B128(t) ELSE Bitmap128_not(B128(t))]

\* returns the mask and whether the call completed; the value = false mask is
\* the complement of the value = true mask
RECURSIVE Bitmap128_create_bit_mask(_, _, _)
Bitmap128_create_bit_mask(begin, end, value) ==
    IF value
    THEN IF begin >= Bitmap128_MAP_LENGTH \/ end < 1
         THEN [ret |-> Unit, bitmap |-> B128(0)]
         ELSE IF end >= Bitmap128_MAP_LENGTH
         THEN IF shift_faults(begin, PrimBits)
              THEN [ret |-> Panic, bitmap |-> B128(0)]
              ELSE [ret |-> Unit, bitmap |-> B128(shl(u128_MAX, begin, PrimBits))]
         ELSE IF shift_faults(begin, PrimBits)
                 \/ shift_faults(Bitmap128_MAP_LENGTH - end, PrimBits)
              THEN [ret |-> Panic, bitmap |-> B128(0)]
              ELSE [ret |-> Unit,
                    bitmap |-> B128(and_bits(
                                  shl(u128_MAX, begin, PrimBits),
                                  shr(u128_MAX, Bitmap128_MAP_LENGTH - end)))]
    ELSE LET t == Bitmap128_create_bit_mask(begin, end, TRUE)
         IN  IF t.ret = Panic THEN t
             ELSE [ret |-> Unit, bitmap |-> Bitmap128_not(t.bitmap)]

\* returns the receiver after the call and whether the call completed
Bitmap128_set_range(self, begin, end, value) ==
    LET m == Bitmap128_create_bit_mask(begin, end, value)
    IN  IF m.ret = Panic THEN [ret |-> Panic, self |-> self]
        ELSE IF value
        THEN [ret |-> Unit, self |-> Bitmap128_bitor_assign(self, m.bitmap)]
        ELSE [ret |-> Unit, self |-> Bitmap128_bitand_assign(self, m.bitmap)]

\* Arithmetic between bitmaps and with a raw u128.  Each returns whether the
\* call completed and the bitmap it returned or left in the receiver; `checks`
\* is the build's overflow-checks setting.

Outcome(o) == IF o.ret = "Panic" THEN Panic ELSE Unit

Bitmap128_add(self, rhs, checks) ==
    LET o == arith(self.words + rhs.words, PrimBits, checks)
    IN  [ret |-> Outcome(o), bitmap |-> B128(o.val)]

Bitmap128_add_assign(self, rhs, checks) ==
    LET o == arith(self.words + rhs.words, PrimBits, checks)
    IN  [ret |-> Outcome(o),
         self |-> IF o.ret = "Panic" THEN self ELSE B128(o.val)]

Bitmap128_add_u128(self, rhs, checks) ==
    LET o == arith(self.words + rhs, PrimBits, checks)
    IN  [ret |-> Outcome(o), bitmap |-> B128(o.val)]

Bitmap128_add_assign_u128(self, rhs, checks) ==
    LET o == arith(self.words + rhs, PrimBits, checks)
    IN  [ret |-> Outcome(o),
         self |-> IF o.ret = "Panic" THEN self ELSE B128(o.val)]

\* self - rhs computed as rhs - self
Bitmap128_sub_u128_reversed(self, rhs, checks) ==
    LET o == arith(rhs - self.words, PrimBits, checks)
    IN  [ret |-> Outcome(o), bitmap |-> B128(o.val)]

Bitmap128_sub(self, rhs, checks) ==
    LET o == arith(self.words - rhs.words, PrimBits, checks)
    IN  [ret |-> Outcome(o), bitmap |-> B128(o.val)]

Bitmap128_sub_assign(self, rhs, checks) ==
    LET o == arith(self.words - rhs.words, PrimBits, checks)
    IN  [ret |-> Outcome(o),
         self |-> IF o.ret = "Panic" THEN self ELSE B128(o.val)]

Bitmap128_sub_u128(self, rhs, checks) ==
    LET o == arith(self.words - rhs, PrimBits, checks)
    IN  [ret |-> Outcome(o), bitmap |-> B128(o.val)]

Bitmap128_sub_assign_u128(self, rhs, checks) ==
    LET o == arith(self.words - rhs, PrimBits, checks)
    IN  [ret |-> Outcome(o),
         self |-> IF o.ret = "Panic" THEN self ELSE B128(o.val)]

Bitmap128_mul(self, rhs, checks) ==
    LET o == arith(self.words * rhs.words, PrimBits, checks)
    IN  [ret |-> Outcome(o), bitmap |-> B128(o.val)]

Bitmap128_mul_assign(self, rhs, checks) ==
    LET o == arith(self.words * rhs.words, PrimBits, checks)
    IN  [ret |-> Outcome(o),
         self |-> IF o.ret = "Panic" THEN self ELSE B128(o.val)]

Bitmap128_mul_u128(self, rhs, checks) ==
    LET o == arith(self.words * rhs, PrimBits, checks)
    IN  [ret |-> Outcome(o), bitmap |-> B128(o.val)]

Bitmap128_mul_assign_u128(self, rhs, checks) ==
    LET o == arith(self.words * rhs, PrimBits, checks)
    IN  [ret |-> Outcome(o),
         self |-> IF o.ret = "Panic" THEN self ELSE B128(o.val)]

Bitmap128_div(self, rhs, checks) ==
    LET o == divided(self.words, rhs.words)
    IN  [ret |-> Outcome(o), bitmap |-> B128(o.val)]

Bitmap128_div_assign(self, rhs, checks) ==
    LET o == divided(self.words, rhs.words)
    IN  [ret |-> Outcome(o),
         self |-> IF o.ret = "Panic" THEN self ELSE B128(o.val)]

Bitmap128_div_u128(self, rhs, checks) ==
    LET o == divided(self.words, rhs)
    IN  [ret |-> Outcome(o), bitmap |-> B128(o.val)]

Bitmap128_div_assign_u128(self, rhs, checks) ==
    LET o == divided(self.words, rhs)
    IN  [ret |-> Outcome(o),
         self |-> IF o.ret = "Panic" THEN self ELSE B128(o.val)]

Bitmap128_bitxor_assign(self, rhs) == B128(xor_bits(self.words, rhs.words))

Bitmap128_bitand_u128(self, rhs) == B128(and_bits(self.words, rhs))

Bitmap128_bitand_assign_u128(self, rhs) == B128(and_bits(self.words, rhs))

Bitmap128_bitor_u128(self, rhs) == B128(or_bits(self.words, rhs))

Bitmap128_bitor_assign_u128(self, rhs) == B128(or_bits(self.words, rhs))

Bitmap128_bitxor_u128(self, rhs) == B128(xor_bits(self.words, rhs))

Bitmap128_bitxor_assign_u128(self, rhs) == B128(xor_bits(self.words, rhs))

\* ----------------------------------------------------------------- Bitmap8
\* Bitmap8 is modelled at its real width.

Bitmap8_MAP_LENGTH == 8

u8_MAX == (2 ^ Bitmap8_MAP_LENGTH) - 1

U8 == 0 .. u8_MAX

B8Indices == 0 .. (Bitmap8_MAP_LENGTH + IndexSlack)

B8(v) == [kind |-> "B8", words |-> v]

Bitmap8_default == B8(0)

Bitmap8_new(value) == B8(IF value THEN u8_MAX ELSE 0)

Bitmap8_from(v) == B8(v)

Bitmap8_get(self, index) ==
    IF index >= Bitmap8_MAP_LENGTH THEN Err
    ELSE LET mask == shl(1, index, Bitmap8_MAP_LENGTH)
         IN  Ok(and_bits(self.words, mask) > 0)

\* set whose value = true arm toggles the bit
Bitmap8_set_toggle(self, index, value) ==
    IF index >= Bitmap8_MAP_LENGTH THEN [ret |-> Err, self |-> self]
    ELSE IF value
    THEN [ret |-> Ok(FALSE),
          self |-> B8(xor_bits(self.words, shl(1, index, Bitmap8_MAP_LENGTH)))]
    ELSE [ret |-> Ok(FALSE),
          self |-> B8(and_bits(self.words,
                               u8_MAX - shl(1, index, Bitmap8_MAP_LENGTH)))]

Bitmap8_set(self, index, value) ==
    IF index >= Bitmap8_MAP_LENGTH THEN [ret |-> Err, self |-> self]
    ELSE IF value
    THEN [ret |-> Ok(FALSE),
          self |-> B8(or_bits(self.words, shl(1, index, Bitmap8_MAP_LENGTH)))]
    ELSE [ret |-> Ok(FALSE),
          self |-> B8(and_bits(self.words,
                               u8_MAX - shl(1, index, Bitmap8_MAP_LENGTH)))]

Bitmap8_bitand(self, rhs) == B8(and_bits(self.words, rhs.words))

Bitmap8_bitor(self, rhs) == B8(or_bits(self.words, rhs.words))

Bitmap8_bitand_assign(self, rhs) == B8(and_bits(self.words, rhs.words))

Bitmap8_bitor_assign(self, rhs) == B8(or_bits(self.words, rhs.words))

Bitmap8_bitxor(self, rhs) == B8(xor_bits(self.words, rhs.words))

\* not that complements the four low bits only
Bitmap8_not_low_bits(self) == B8(xor_bits(self.words, 15))

Bitmap8_not(self) == B8(xor_bits(self.words, u8_MAX))

\* the value of a shift expression, or the fault of one of its shifts
Shifted(faults, v) ==
    IF faults THEN [ret |-> Panic, bitmap |-> B8(0)]
    ELSE [ret |-> Unit, bitmap |-> B8(v)]

\* create_bit_mask whose value = false mask keeps bit `end` clear
Bitmap8_create_bit_mask_wide_false(begin, end, value) ==
    IF value
    THEN IF begin >= Bitmap8_MAP_LENGTH \/ end < 1
         THEN Shifted(FALSE, 0)
         ELSE IF end >= Bitmap8_MAP_LENGTH
         THEN Shifted(FALSE, shl(u8_MAX, begin, Bitmap8_MAP_LENGTH))
         ELSE Shifted(FALSE,
                      and_bits(shl(u8_MAX, begin, Bitmap8_MAP_LENGTH),
                               shr(u8_MAX, Bitmap8_MAP_LENGTH - end)))
    ELSE IF begin >= Bitmap8_MAP_LENGTH \/ end < 1
         THEN Shifted(FALSE, u8_MAX)
         ELSE IF begin = 0 /\ end >= Bitmap8_MAP_LENGTH
         THEN Shifted(FALSE, 0)
         ELSE IF end >= Bitmap8_MAP_LENGTH
         THEN Shifted(FALSE, shr(u8_MAX, Bitmap8_MAP_LENGTH - begin))
         ELSE IF begin < 1
         THEN Shifted(FALSE, shl(u8_MAX, end + 1, Bitmap8_MAP_LENGTH))
         ELSE Shifted(FALSE,
                      or_bits(shr(u8_MAX, Bitmap8_MAP_LENGTH - begin),
                              shl(u8_MAX, end + 1, Bitmap8_MAP_LENGTH)))

\* create_bit_mask whose value = false mask joins its two halves with ^
Bitmap8_create_bit_mask_xor_false(begin, end, value) ==
    IF value
    THEN IF begin >= Bitmap8_MAP_LENGTH \/ end < 1
         THEN Shifted(FALSE, 0)
         ELSE IF end >= Bitmap8_MAP_LENGTH
         THEN Shifted(FALSE, shl(u8_MAX, begin, Bitmap8_MAP_LENGTH))
         ELSE Shifted(FALSE,
                      and_bits(shl(u8_MAX, begin, Bitmap8_MAP_LENGTH),
                               shr(u8_MAX, Bitmap8_MAP_LENGTH - end)))
    ELSE IF begin >= Bitmap8_MAP_LENGTH \/ end < 1
         THEN Shifted(FALSE, u8_MAX)
         ELSE IF begin = 0 /\ end >= Bitmap8_MAP_LENGTH
         THEN Shifted(FALSE, 0)
         ELSE IF end >= Bitmap8_MAP_LENGTH
         THEN Shifted(FALSE, shr(u8_MAX, Bitmap8_MAP_LENGTH - begin))
         ELSE IF begin < 1
         THEN Shifted(FALSE, shl(u8_MAX, end, Bitmap8_MAP_LENGTH))
         ELSE Shifted(FALSE,
                      xor_bits(shr(u8_MAX, Bitmap8_MAP_LENGTH - begin),
                               shl(u8_MAX, end, Bitmap8_MAP_LENGTH)))

\* returns the mask and whether the call completed; the value = false mask is
\* built by its own five cases
Bitmap8_create_bit_mask(begin, end, value) ==
    IF value
    THEN IF begin >= Bitmap8_MAP_LENGTH \/ end < 1
         THEN Shifted(FALSE, 0)
         ELSE IF end >= Bitmap8_MAP_LENGTH
         THEN Shifted(shift_faults(begin, Bitmap8_MAP_LENGTH),
                      shl(u8_MAX, begin, Bitmap8_MAP_LENGTH))
         ELSE Shifted(shift_faults(begin, Bitmap8_MAP_LENGTH)
                         \/ shift_faults(Bitmap8_MAP_LENGTH - end,
                                         Bitmap8_MAP_LENGTH),
                      and_bits(shl(u8_MAX, begin, Bitmap8_MAP_LENGTH),
                               shr(u8_MAX, Bitmap8_MAP_LENGTH - end)))
    ELSE IF begin >= Bitmap8_MAP_LENGTH \/ end < 1
         THEN Shifted(FALSE, u8_MAX)
         ELSE IF begin = 0 /\ end >= Bitmap8_MAP_LENGTH
         THEN Shifted(FALSE, 0)
         ELSE IF end >= Bitmap8_MAP_LENGTH
         THEN Shifted(shift_faults(Bitmap8_MAP_LENGTH - begin,
                                   Bitmap8_MAP_LENGTH),
                      shr(u8_MAX, Bitmap8_MAP_LENGTH - begin))
         ELSE IF begin < 1
         THEN Shifted(shift_faults(end, Bitmap8_MAP_LENGTH),
                      shl(u8_MAX, end, Bitmap8_MAP_LENGTH))
         ELSE Shifted(shift_faults(Bitmap8_MAP_LENGTH - begin,
                                   Bitmap8_MAP_LENGTH)
                         \/ shift_faults(end, Bitmap8_MAP_LENGTH),
                      or_bits(shr(u8_MAX, Bitmap8_MAP_LENGTH - begin),
                              shl(u8_MAX, end, Bitmap8_MAP_LENGTH)))

\* set_range that clears with the value = true mask
Bitmap8_set_range_wrong_mask(self, begin, end, value) ==
    LET m == Bitmap8_create_bit_mask(begin, end, TRUE)
    IN  IF m.ret = Panic THEN [ret |-> Panic, self |-> self]
        ELSE IF value
        THEN [ret |-> Unit, self |-> Bitmap8_bitor_assign(self, m.bitmap)]
        ELSE [ret |-> Unit, self |-> Bitmap8_bitand_assign(self, m.bitmap)]

\* returns the receiver after the call and whether the call completed
Bitmap8_set_range(self, begin, end, value) ==
    LET m == Bitmap8_create_bit_mask(begin, end, value)
    IN  IF m.ret = Panic THEN [ret |-> Panic, self |-> self]
        ELSE IF value
        THEN [ret |-> Unit, self |-> Bitmap8_bitor_assign(self, m.bitmap)]
        ELSE [ret |-> Unit, self |-> Bitmap8_bitand_assign(self, m.bitmap)]

\* -------------------------------------------------------------- Bitmap1024
\* Bitmap1024 is modelled at its real capacity.  ELEMENT_SIZE is the width
\* of usize on the target; the narrowest one Rust supports is taken here.

Bitmap1024_MAP_LENGTH == 1024

Bitmap1024_ELEMENT_SIZE == 16

Bitmap1024_ELEMENT_COUNT == Bitmap1024_MAP_LENGTH \div Bitmap1024_ELEMENT_SIZE

B1024(arr) == [kind |-> "B1024", words |-> arr]

Bitmap1024_default ==
    B1024([k \in 0 .. (Bitmap1024_ELEMENT_COUNT - 1) |-> 0])

Bitmap1024_get_element_location(bit_index) ==
    Bitmap1024_ELEMENT_COUNT - 1 - (bit_index \div Bitmap1024_ELEMENT_SIZE)

Bitmap1024_get(self, index) ==
    IF index >= Bitmap1024_MAP_LENGTH THEN Err
    ELSE LET element_location == Bitmap1024_get_element_location(index)
             mask == shl(1, index % Bitmap1024_ELEMENT_SIZE,
                         Bitmap1024_ELEMENT_SIZE)
         IN  Ok(and_bits(self.words[element_location], mask) > 0)

Bitmap1024_set(self, index, value) ==
    IF index >= Bitmap1024_MAP_LENGTH THEN [ret |-> Err, self |-> self]
    ELSE LET element_location == Bitmap1024_get_element_location(index)
             bit == shl(1, index % Bitmap1024_ELEMENT_SIZE,
                        Bitmap1024_ELEMENT_SIZE)
             word == self.words[element_location]
         IN  [ret |-> Ok(FALSE),
              self |-> B1024([self.words EXCEPT ![element_location] =
                                 IF value THEN or_bits(word, bit)
                                 ELSE and_bits(word,
                                        (2 ^ Bitmap1024_ELEMENT_SIZE) - 1 - bit)])]

\* the derived PartialEq
Bitmap1024_eq(self, other) ==
    \A k \in 0 .. (Bitmap1024_ELEMENT_COUNT - 1) :
       self.words[k] = other.words[k]

\* ------------------------------------------------- layout of the word array
\* ELEMENT_COUNT and get_element_location of the three multi-word files, as
\* functions of the file's MAP_LENGTH and the target's usize width.

\* MAP_LENGTH of bitmap_1024.rs, bitmap_4096.rs and bitmap_kb.rs
ShippedLengths == {1024, 4096, 8192}

\* bits of usize on a 32-bit and on a 64-bit target
UsizeBits == {32, 64}

ELEMENT_COUNT_of(length, size) == length \div size

\* get_element_location without the `- 1`
get_element_location_of_one_past(bit_index, length, size) ==
    ELEMENT_COUNT_of(length, size) - (bit_index \div size)

get_element_location_of(bit_index, length, size) ==
    ELEMENT_COUNT_of(length, size) - 1 - (bit_index \div size)

\* --------------------------------------- multi-word operations by capacity
\* The operations of bitmap_kb.rs as functions of MAP_LENGTH (`length`), the
\* word width staying ELEMENT_SIZE; a length of ELEMENT_SIZE gives the bitmap
\* of one word.

ElementsOf(length) == 0 .. (ELEMENT_COUNT_of(length, ELEMENT_SIZE) - 1)

BitmapKB_default_of(length) == KB([k \in ElementsOf(length) |-> 0])

BitmapKB_new_of(value, length) ==
    KB([k \in ElementsOf(length) |-> IF value THEN usize_MAX ELSE 0])

BitmapKB_from_of(arr, length) == KB([k \in ElementsOf(length) |-> arr[k]])

BitmapKB_get_of(self, index, length) ==
    IF index >= length THEN Err
    ELSE LET element_location ==
                 get_element_location_of(index, length, ELEMENT_SIZE)
             mask == shl(1, index % ELEMENT_SIZE, ELEMENT_SIZE)
         IN  IF element_location \notin ElementsOf(length) THEN Panic
             ELSE Ok(and_bits(self.words[element_location], mask) > 0)

BitmapKB_set_of(self, index, value, length) ==
    IF index >= length THEN [ret |-> Err, self |-> self]
    ELSE LET element_location ==
                 get_element_location_of(index, length, ELEMENT_SIZE)
             bit == shl(1, index % ELEMENT_SIZE, ELEMENT_SIZE)
         IN  IF element_location \notin ElementsOf(length)
             THEN [ret |-> Panic, self |-> self]
             ELSE IF value
             THEN [ret |-> Ok(FALSE),
                   self |-> KB([self.words EXCEPT ![element_location] =
                                   or_bits(@, bit)])]
             ELSE [ret |-> Ok(FALSE),
                   self |-> KB([self.words EXCEPT ![element_location] =
                                   and_bits(@, usize_MAX - bit)])]

BitmapKB_from_set_of(index, length) ==
    IF index >= length
    THEN [ret |-> None, bitmap |-> BitmapKB_default_of(length)]
    ELSE LET r == BitmapKB_set_of(BitmapKB_default_of(length), index, TRUE,
                                  length)
         IN  IF r.ret.tag = "Ok" THEN [ret |-> Some, bitmap |-> r.self]
             ELSE [ret |-> Panic, bitmap |-> BitmapKB_default_of(length)]

BitmapKB_bitand_of(self, rhs, length) ==
    KB([i \in ElementsOf(length) |-> and_bits(self.words[i], rhs.words[i])])

BitmapKB_bitor_of(self, rhs, length) ==
    KB([i \in ElementsOf(length) |-> or_bits(self.words[i], rhs.words[i])])

BitmapKB_bitxor_of(self, rhs, length) ==
    KB([i \in ElementsOf(length) |-> xor_bits(self.words[i], rhs.words[i])])

BitmapKB_add_of(self, rhs, length) ==
    LET r == add_loop(self.words, rhs,
                      ELEMENT_COUNT_of(length, ELEMENT_SIZE) - 1)
    IN  [bitmap |-> KB(r.bitmap),
         warnings |-> IF ~r.fault /\ r.carry > 0 THEN 1 ELSE 0,
         ret |-> IF r.fault THEN Panic ELSE Unit]

\* ---------------------------------------------------------------- BitmapArch
\* The single-word bitmap over usize, the word type of the multi-word
\* bitmaps.

BitmapArch_MAP_LENGTH == ELEMENT_SIZE

Arch(v) == [kind |-> "Arch", words |-> v]

BitmapArch_default == Arch(0)

BitmapArch_new(value) == Arch(IF value THEN usize_MAX ELSE 0)

BitmapArch_from(v) == Arch(v)

BitmapArch_get(self, index) ==
    IF index >= BitmapArch_MAP_LENGTH THEN Err
    ELSE LET mask == shl(1, index, ELEMENT_SIZE)
         IN  Ok(and_bits(self.words, mask) > 0)

\* set that numbers the bits from the most significant end
BitmapArch_set_from_top(self, index, value) ==
    IF index >= BitmapArch_MAP_LENGTH THEN [ret |-> Err, self |-> self]
    ELSE LET bit == shl(1, BitmapArch_MAP_LENGTH - 1 - index, ELEMENT_SIZE)
         IN  IF value
             THEN [ret |-> Ok(FALSE), self |-> Arch(or_bits(self.words, bit))]
             ELSE [ret |-> Ok(FALSE),
                   self |-> Arch(and_bits(self.words, usize_MAX - bit))]

BitmapArch_set(self, index, value) ==
    IF index >= BitmapArch_MAP_LENGTH THEN [ret |-> Err, self |-> self]
    ELSE IF value
    THEN [ret |-> Ok(FALSE),
          self |-> Arch(or_bits(self.words, shl(1, index, ELEMENT_SIZE)))]
    ELSE [ret |-> Ok(FALSE),
          self |-> Arch(and_bits(self.words,
                                 usize_MAX - shl(1, index, ELEMENT_SIZE)))]

BitmapArch_from_set(index) ==
    IF index >= BitmapArch_MAP_LENGTH
    THEN [ret |-> None, bitmap |-> BitmapArch_default]
    ELSE LET r == BitmapArch_set(BitmapArch_default, index, TRUE)
         IN  IF r.ret.tag = "Ok" THEN [ret |-> Some, bitmap |-> r.self]
             ELSE [ret |-> Panic, bitmap |-> BitmapArch_default]

BitmapArch_bitand(self, rhs) == Arch(and_bits(self.words, rhs.words))

BitmapArch_bitor(self, rhs) == Arch(or_bits(self.words, rhs.words))

BitmapArch_bitxor(self, rhs) == Arch(xor_bits(self.words, rhs.words))

\* Self(self.0 + rhs)
BitmapArch_add_usize(self, rhs, checks) ==
    LET o == arith(self.words + rhs, ELEMENT_SIZE, checks)
    IN  [ret |-> Outcome(o), bitmap |-> Arch(o.val)]

\* ---------------------------------------------------------------- state

VARIABLES
    pc,       \* "ready": constructed, no operation yet; "done": one applied
    bitmap,   \* the receiver
    before,   \* the receiver when the operation was called
    op,       \* the operation applied
    index,    \* its index argument (begin, for the range operations)
    end,      \* the end argument of the range operations
    value,    \* its bool argument
    rhs,      \* its bitmap operand
    scalar,   \* its usize operand
    result,   \* the bitmap the operation returned (value-returning forms)
    ret,      \* its Result / Option / panic
    warnings, \* lines it wrote to stderr
    step,     \* position of the program that builds and compares bitmaps
    bitmap_a, \* its first bitmap
    bitmap_b, \* its second bitmap
    bitmap_c, \* its third bitmap
    ma,       \* for each index, the value of the last successful set on a
    mb,       \* the same for b
    calls,    \* the set calls the program has made: receiver and index
    eq,       \* what its last == returned
    ord,      \* what a.cmp(&b) returned
    panicked, \* an unwrap or an assertion of the program panicked
    overflow_checks, \* the build checks integer arithmetic for overflow
    map_length,      \* capacity of the multi-word type whose layout is computed
    element_size,    \* bits of usize on the target of that computation
    location,        \* the element location it computed
    total,    \* sum of the scalars a program of repeated adds has added
    adds,     \* number of adds it has made
    one_result, \* what the same call returned on the bitmap of one word
    one_ret     \* its Result / Option / panic

callvars == <<pc, bitmap, before, op, index, end, value, rhs, scalar, result,
              ret, warnings>>

buildvars == <<step, bitmap_a, bitmap_b, bitmap_c, ma, mb, calls, eq, ord,
               panicked>>

extravars == <<overflow_checks, map_length, element_size, location, total,
               adds, one_result, one_ret>>

vars == <<callvars, buildvars, extravars>>

\* a build with overflow checks; no layout computed, nothing added, no
\* call made on a bitmap of one word
ExtraIdle ==
    /\ overflow_checks = TRUE
    /\ map_length = 8192
    /\ element_size = 64
    /\ location = 0
    /\ total = 0
    /\ adds = 0
    /\ one_result = BitmapKB_default
    /\ one_ret = Unit

\* no successful set yet
NoBits == [i \in 0 .. (MAP_LENGTH - 1) |-> FALSE]

\* the building program has not started
BuildIdle ==
    /\ step = "none"
    /\ bitmap_a = BitmapKB_default
    /\ bitmap_b = BitmapKB_default
    /\ bitmap_c = BitmapKB_default
    /\ ma = NoBits
    /\ mb = NoBits
    /\ calls = <<>>
    /\ eq = FALSE
    /\ ord = "Equal"
    /\ panicked = FALSE

Init ==
    /\ pc = "ready"
    /\ bitmap \in {BitmapKB_from(arr) : arr \in Arrays}
                  \cup {Bitmap128_from(v) : v \in U128}
                  \cup {Bitmap8_from(v) : v \in U8}
    /\ before = bitmap
    /\ op = "none"
    /\ index = 0
    /\ end = 0
    /\ value = FALSE
    /\ rhs = bitmap
    /\ scalar = 0
    /\ result = bitmap
    /\ ret = Unit
    /\ warnings = 0
    /\ BuildIdle
    /\ ExtraIdle

\* every operation is called once on the constructed receiver
Call(name) ==
    /\ pc = "ready"
    /\ pc' = "done"
    /\ op' = name
    /\ UNCHANGED <<buildvars, extravars>>

KBDefault ==
    /\ Call("default")
    /\ bitmap.kind = "KB"
    /\ result' = BitmapKB_default
    /\ UNCHANGED <<end, bitmap, before, index, value, rhs, scalar, ret, warnings>>

KBNew ==
    /\ Call("new")
    /\ bitmap.kind = "KB"
    /\ \E v \in BOOLEAN :
          /\ value' = v
          /\ result' = BitmapKB_new(v)
    /\ UNCHANGED <<end, bitmap, before, index, rhs, scalar, ret, warnings>>

KBGet ==
    /\ Call("get")
    /\ bitmap.kind = "KB"
    /\ \E i \in Indices :
          /\ index' = i
          /\ ret' = BitmapKB_get(bitmap, i)
    /\ UNCHANGED <<end, bitmap, before, value, rhs, scalar, result, warnings>>

KBSet ==
    /\ Call("set")
    /\ bitmap.kind = "KB"
    /\ \E i \in Indices, v \in BOOLEAN :
          LET r == BitmapKB_set(bitmap, i, v)
          IN  /\ index' = i
              /\ value' = v
              /\ ret' = r.ret
              /\ bitmap' = r.self
    /\ UNCHANGED <<end, before, rhs, scalar, result, warnings>>

KBFromSet ==
    /\ Call("from_set")
    /\ bitmap.kind = "KB"
    /\ \E i \in Indices :
          LET r == BitmapKB_from_set(i)
          IN  /\ index' = i
              /\ ret' = r.ret
              /\ result' = r.bitmap
    /\ UNCHANGED <<end, bitmap, before, value, rhs, scalar, warnings>>

KBBitAnd ==
    /\ Call("bitand")
    /\ bitmap.kind = "KB"
    /\ \E arr \in Arrays :
          /\ rhs' = BitmapKB_from(arr)
          /\ result' = BitmapKB_bitand(bitmap, BitmapKB_from(arr))
    /\ UNCHANGED <<end, bitmap, before, index, value, scalar, ret, warnings>>

KBBitOr ==
    /\ Call("bitor")
    /\ bitmap.kind = "KB"
    /\ \E arr \in Arrays :
          /\ rhs' = BitmapKB_from(arr)
          /\ result' = BitmapKB_bitor(bitmap, BitmapKB_from(arr))
    /\ UNCHANGED <<end, bitmap, before, index, value, scalar, ret, warnings>>

KBBitXor ==
    /\ Call("bitxor")
    /\ bitmap.kind = "KB"
    /\ \E arr \in Arrays :
          /\ rhs' = BitmapKB_from(arr)
          /\ result' = BitmapKB_bitxor(bitmap, BitmapKB_from(arr))
    /\ UNCHANGED <<end, bitmap, before, index, value, scalar, ret, warnings>>

KBBitAndAssign ==
    /\ Call("bitand_assign")
    /\ bitmap.kind = "KB"
    /\ \E arr \in Arrays :
          /\ rhs' = BitmapKB_from(arr)
          /\ bitmap' = BitmapKB_bitand_assign(bitmap, BitmapKB_from(arr))
    /\ UNCHANGED <<end, before, index, value, scalar, result, ret, warnings>>

KBBitOrAssign ==
    /\ Call("bitor_assign")
    /\ bitmap.kind = "KB"
    /\ \E arr \in Arrays :
          /\ rhs' = BitmapKB_from(arr)
          /\ bitmap' = BitmapKB_bitor_assign(bitmap, BitmapKB_from(arr))
    /\ UNCHANGED <<end, before, index, value, scalar, result, ret, warnings>>

KBBitXorAssign ==
    /\ Call("bitxor_assign")
    /\ bitmap.kind = "KB"
    /\ \E arr \in Arrays :
          /\ rhs' = BitmapKB_from(arr)
          /\ bitmap' = BitmapKB_bitxor_assign(bitmap, BitmapKB_from(arr))
    /\ UNCHANGED <<end, before, index, value, scalar, result, ret, warnings>>

KBAdd ==
    /\ Call("add")
    /\ bitmap.kind = "KB"
    /\ \E s \in Words :
          LET r == BitmapKB_add(bitmap, s)
          IN  /\ scalar' = s
              /\ result' = r.bitmap
              /\ warnings' = r.warnings
              /\ ret' = r.ret
    /\ UNCHANGED <<end, bitmap, before, index, value, rhs>>

KBAddAssign ==
    /\ Call("add_assign")
    /\ bitmap.kind = "KB"
    /\ \E s \in Words :
          LET r == BitmapKB_add_assign(bitmap, s)
          IN  /\ scalar' = s
              /\ bitmap' = r.self
              /\ warnings' = r.warnings
              /\ ret' = r.ret
    /\ UNCHANGED <<end, before, index, value, rhs, result>>

B128Default ==
    /\ Call("default")
    /\ bitmap.kind = "B128"
    /\ result' = Bitmap128_default
    /\ UNCHANGED <<end, bitmap, before, index, value, rhs, scalar, ret, warnings>>

B128New ==
    /\ Call("new")
    /\ bitmap.kind = "B128"
    /\ \E v \in BOOLEAN :
          /\ value' = v
          /\ result' = Bitmap128_new(v)
    /\ UNCHANGED <<end, bitmap, before, index, rhs, scalar, ret, warnings>>

B128Get ==
    /\ Call("get")
    /\ bitmap.kind = "B128"
    /\ \E i \in PrimIndices :
          /\ index' = i
          /\ ret' = Bitmap128_get(bitmap, i)
    /\ UNCHANGED <<end, bitmap, before, value, rhs, scalar, result, warnings>>

B128Set ==
    /\ Call("set")
    /\ bitmap.kind = "B128"
    /\ \E i \in PrimIndices, v \in BOOLEAN :
          LET r == Bitmap128_set(bitmap, i, v)
          IN  /\ index' = i
              /\ value' = v
              /\ ret' = r.ret
              /\ bitmap' = r.self
    /\ UNCHANGED <<end, before, rhs, scalar, result, warnings>>

B128FromSet ==
    /\ Call("from_set")
    /\ bitmap.kind = "B128"
    /\ \E i \in PrimIndices :
          LET r == Bitmap128_from_set(i)
          IN  /\ index' = i
              /\ ret' = r.ret
              /\ result' = r.bitmap
    /\ UNCHANGED <<end, bitmap, before, value, rhs, scalar, warnings>>

B128BitAnd ==
    /\ Call("bitand")
    /\ bitmap.kind = "B128"
    /\ \E v \in U128 :
          /\ rhs' = Bitmap128_from(v)
          /\ result' = Bitmap128_bitand(bitmap, Bitmap128_from(v))
    /\ UNCHANGED <<end, bitmap, before, index, value, scalar, ret, warnings>>

B128BitOr ==
    /\ Call("bitor")
    /\ bitmap.kind = "B128"
    /\ \E v \in U128 :
          /\ rhs' = Bitmap128_from(v)
          /\ result' = Bitmap128_bitor(bitmap, Bitmap128_from(v))
    /\ UNCHANGED <<end, bitmap, before, index, value, scalar, ret, warnings>>

B128BitXor ==
    /\ Call("bitxor")
    /\ bitmap.kind = "B128"
    /\ \E v \in U128 :
          /\ rhs' = Bitmap128_from(v)
          /\ result' = Bitmap128_bitxor(bitmap, Bitmap128_from(v))
    /\ UNCHANGED <<end, bitmap, before, index, value, scalar, ret, warnings>>

B128Not ==
    /\ Call("not")
    /\ bitmap.kind = "B128"
    /\ result' = Bitmap128_not(bitmap)
    /\ UNCHANGED <<end, bitmap, before, index, value, rhs, scalar, ret, warnings>>

B128CreateBitMask ==
    /\ Call("create_bit_mask")
    /\ bitmap.kind = "B128"
    /\ \E b \in PrimIndices, e \in PrimIndices, v \in BOOLEAN :
          LET r == Bitmap128_create_bit_mask(b, e, v)
          IN  /\ index' = b
              /\ end' = e
              /\ value' = v
              /\ ret' = r.ret
              /\ result' = r.bitmap
    /\ UNCHANGED <<bitmap, before, rhs, scalar, warnings>>

B128SetRange ==
    /\ Call("set_range")
    /\ bitmap.kind = "B128"
    /\ \E b \in PrimIndices, e \in PrimIndices, v \in BOOLEAN :
          LET r == Bitmap128_set_range(bitmap, b, e, v)
          IN  /\ index' = b
              /\ end' = e
              /\ value' = v
              /\ ret' = r.ret
              /\ bitmap' = r.self
    /\ UNCHANGED <<before, rhs, scalar, result, warnings>>

B8New ==
    /\ Call("new")
    /\ bitmap.kind = "B8"
    /\ \E v \in BOOLEAN :
          /\ value' = v
          /\ result' = Bitmap8_new(v)
    /\ UNCHANGED <<end, bitmap, before, index, rhs, scalar, ret, warnings>>

B8Get ==
    /\ Call("get")
    /\ bitmap.kind = "B8"
    /\ \E i \in B8Indices :
          /\ index' = i
          /\ ret' = Bitmap8_get(bitmap, i)
    /\ UNCHANGED <<end, bitmap, before, value, rhs, scalar, result, warnings>>

B8Set ==
    /\ Call("set")
    /\ bitmap.kind = "B8"
    /\ \E i \in B8Indices, v \in BOOLEAN :
          LET r == Bitmap8_set(bitmap, i, v)
          IN  /\ index' = i
              /\ value' = v
              /\ ret' = r.ret
              /\ bitmap' = r.self
    /\ UNCHANGED <<end, before, rhs, scalar, result, warnings>>

B8CreateBitMask ==
    /\ Call("create_bit_mask")
    /\ bitmap.kind = "B8"
    /\ \E b \in B8Indices, e \in B8Indices, v \in BOOLEAN :
          LET r == Bitmap8_create_bit_mask(b, e, v)
          IN  /\ index' = b
              /\ end' = e
              /\ value' = v
              /\ ret' = r.ret
              /\ result' = r.bitmap
    /\ UNCHANGED <<bitmap, before, rhs, scalar, warnings>>

B8SetRange ==
    /\ Call("set_range")
    /\ bitmap.kind = "B8"
    /\ \E b \in B8Indices, e \in B8Indices, v \in BOOLEAN :
          LET r == Bitmap8_set_range(bitmap, b, e, v)
          IN  /\ index' = b
              /\ end' = e
              /\ value' = v
              /\ ret' = r.ret
              /\ bitmap' = r.self
    /\ UNCHANGED <<before, rhs, scalar, result, warnings>>

B8Not ==
    /\ Call("not")
    /\ bitmap.kind = "B8"
    /\ result' = Bitmap8_not(bitmap)
    /\ UNCHANGED <<end, bitmap, before, index, value, rhs, scalar, ret, warnings>>

Next ==
    \/ KBDefault
    \/ KBNew
    \/ KBGet
    \/ KBSet
    \/ KBFromSet
    \/ KBBitAnd
    \/ KBBitOr
    \/ KBBitXor
    \/ KBBitAndAssign
    \/ KBBitOrAssign
    \/ KBBitXorAssign
    \/ KBAdd
    \/ KBAddAssign
    \/ B128Default
    \/ B128New
    \/ B128Get
    \/ B128Set
    \/ B128FromSet
    \/ B128BitAnd
    \/ B128BitOr
    \/ B128BitXor
    \/ B128Not
    \/ B128CreateBitMask
    \/ B128SetRange
    \/ B8New
    \/ B8Get
    \/ B8Set
    \/ B8CreateBitMask
    \/ B8SetRange
    \/ B8Not

Spec == Init /\ [][Next]_vars

\* ------------------------------------------- building and comparing bitmaps
\* The program of equality_test: bitmaps are built from default() by set
\* calls, one bitmap after the other, and then compared.  Here a and b take
\* any number of set calls with any index and value.

\* no single operation is under way
CallIdle ==
    /\ pc = "ready"
    /\ bitmap = BitmapKB_default
    /\ before = BitmapKB_default
    /\ op = "none"
    /\ index = 0
    /\ end = 0
    /\ value = FALSE
    /\ rhs = BitmapKB_default
    /\ scalar = 0
    /\ result = BitmapKB_default
    /\ ret = Unit
    /\ warnings = 0

InitBuild ==
    /\ CallIdle
    /\ step = "a"
    /\ bitmap_a = BitmapKB_default
    /\ bitmap_b = BitmapKB_default
    /\ bitmap_c = BitmapKB_default
    /\ ma = NoBits
    /\ mb = NoBits
    /\ calls = <<>>
    /\ eq = FALSE
    /\ ord = "Equal"
    /\ panicked = FALSE
    /\ ExtraIdle

\* a.set(i, v)
SetA ==
    /\ step = "a"
    /\ \E i \in Indices, v \in BOOLEAN :
          LET r == BitmapKB_set(bitmap_a, i, v)
          IN  /\ bitmap_a' = r.self
              /\ ma' = IF r.ret.tag = "Ok" THEN [ma EXCEPT ![i] = v] ELSE ma
    /\ UNCHANGED <<step, bitmap_b, bitmap_c, mb, calls, eq, ord, panicked>>
    /\ UNCHANGED <<callvars, extravars>>

\* let mut b = BitmapKB::default();
StartB ==
    /\ step = "a"
    /\ step' = "b"
    /\ bitmap_b' = BitmapKB_default
    /\ UNCHANGED <<bitmap_a, bitmap_c, ma, mb, calls, eq, ord, panicked>>
    /\ UNCHANGED <<callvars, extravars>>

\* b.set(i, v)
SetB ==
    /\ step = "b"
    /\ \E i \in Indices, v \in BOOLEAN :
          LET r == BitmapKB_set(bitmap_b, i, v)
          IN  /\ bitmap_b' = r.self
              /\ mb' = IF r.ret.tag = "Ok" THEN [mb EXCEPT ![i] = v] ELSE mb
    /\ UNCHANGED <<step, bitmap_a, bitmap_c, ma, calls, eq, ord, panicked>>
    /\ UNCHANGED <<callvars, extravars>>

\* a == b and a.cmp(&b)
Compare ==
    /\ step = "b"
    /\ step' = "compared"
    /\ eq' = BitmapKB_eq(bitmap_a, bitmap_b)
    /\ ord' = BitmapKB_cmp(bitmap_a, bitmap_b)
    /\ UNCHANGED <<bitmap_a, bitmap_b, bitmap_c, ma, mb, calls, panicked>>
    /\ UNCHANGED <<callvars, extravars>>

NextBuild ==
    \/ SetA
    \/ StartB
    \/ SetB
    \/ Compare

SpecBuild == InitBuild /\ [][NextBuild]_vars

\* ------------------------------------------- equality_test of Bitmap1024
\* The test builds a and b by two set(i, true).unwrap() calls each and c by
\* one, then asserts a == b and a != c.  The indices the calls take are
\* drawn from TestIndices, which holds the two the test uses.

TestIndices == {0, 1000, 1023, 1024, 1054}

Init1024 ==
    /\ CallIdle
    /\ step = "a1"
    /\ bitmap_a = Bitmap1024_default
    /\ bitmap_b = Bitmap1024_default
    /\ bitmap_c = Bitmap1024_default
    /\ ma = NoBits
    /\ mb = NoBits
    /\ calls = <<>>
    /\ eq = FALSE
    /\ ord = "Equal"
    /\ panicked = FALSE
    /\ ExtraIdle

\* a.set(i, true).unwrap(), first call
TestSetA1 ==
    /\ step = "a1"
    /\ \E i \in TestIndices :
          LET r == Bitmap1024_set(bitmap_a, i, TRUE)
          IN  /\ calls' = Append(calls, <<"a", i>>)
              /\ bitmap_a' = r.self
              /\ panicked' = (r.ret.tag # "Ok")
              /\ step' = IF r.ret.tag = "Ok" THEN "a2" ELSE "panicked"
    /\ UNCHANGED <<bitmap_b, bitmap_c, ma, mb, eq, ord>>
    /\ UNCHANGED <<callvars, extravars>>

\* a.set(i, true).unwrap(), second call
TestSetA2 ==
    /\ step = "a2"
    /\ \E i \in TestIndices :
          LET r == Bitmap1024_set(bitmap_a, i, TRUE)
          IN  /\ calls' = Append(calls, <<"a", i>>)
              /\ bitmap_a' = r.self
              /\ panicked' = (r.ret.tag # "Ok")
              /\ step' = IF r.ret.tag = "Ok" THEN "b1" ELSE "panicked"
    /\ UNCHANGED <<bitmap_b, bitmap_c, ma, mb, eq, ord>>
    /\ UNCHANGED <<callvars, extravars>>

\* b.set(i, true).unwrap(), first call
TestSetB1 ==
    /\ step = "b1"
    /\ \E i \in TestIndices :
          LET r == Bitmap1024_set(bitmap_b, i, TRUE)
          IN  /\ calls' = Append(calls, <<"b", i>>)
              /\ bitmap_b' = r.self
              /\ panicked' = (r.ret.tag # "Ok")
              /\ step' = IF r.ret.tag = "Ok" THEN "b2" ELSE "panicked"
    /\ UNCHANGED <<bitmap_a, bitmap_c, ma, mb, eq, ord>>
    /\ UNCHANGED <<callvars, extravars>>

\* b.set(i, true).unwrap(), second call
TestSetB2 ==
    /\ step = "b2"
    /\ \E i \in TestIndices :
          LET r == Bitmap1024_set(bitmap_b, i, TRUE)
          IN  /\ calls' = Append(calls, <<"b", i>>)
              /\ bitmap_b' = r.self
              /\ panicked' = (r.ret.tag # "Ok")
              /\ step' = IF r.ret.tag = "Ok" THEN "c1" ELSE "panicked"
    /\ UNCHANGED <<bitmap_a, bitmap_c, ma, mb, eq, ord>>
    /\ UNCHANGED <<callvars, extravars>>

\* c.set(i, true).unwrap()
TestSetC1 ==
    /\ step = "c1"
    /\ \E i \in TestIndices :
          LET r == Bitmap1024_set(bitmap_c, i, TRUE)
          IN  /\ calls' = Append(calls, <<"c", i>>)
              /\ bitmap_c' = r.self
              /\ panicked' = (r.ret.tag # "Ok")
              /\ step' = IF r.ret.tag = "Ok" THEN "assert_eq" ELSE "panicked"
    /\ UNCHANGED <<bitmap_a, bitmap_b, ma, mb, eq, ord>>
    /\ UNCHANGED <<callvars, extravars>>

\* assert_eq!(a, b)
TestAssertEq ==
    /\ step = "assert_eq"
    /\ eq' = Bitmap1024_eq(bitmap_a, bitmap_b)
    /\ panicked' = ~Bitmap1024_eq(bitmap_a, bitmap_b)
    /\ step' = IF Bitmap1024_eq(bitmap_a, bitmap_b) THEN "assert_ne"
               ELSE "panicked"
    /\ UNCHANGED <<bitmap_a, bitmap_b, bitmap_c, ma, mb, calls, ord>>
    /\ UNCHANGED <<callvars, extravars>>

\* assert_ne!(a, c)
TestAssertNe ==
    /\ step = "assert_ne"
    /\ eq' = Bitmap1024_eq(bitmap_a, bitmap_c)
    /\ panicked' = Bitmap1024_eq(bitmap_a, bitmap_c)
    /\ step' = IF Bitmap1024_eq(bitmap_a, bitmap_c) THEN "panicked"
               ELSE "passed"
    /\ UNCHANGED <<bitmap_a, bitmap_b, bitmap_c, ma, mb, calls, ord>>
    /\ UNCHANGED <<callvars, extravars>>

Next1024 ==
    \/ TestSetA1
    \/ TestSetA2
    \/ TestSetB1
    \/ TestSetB2
    \/ TestSetC1
    \/ TestAssertEq
    \/ TestAssertNe

Spec1024 == Init1024 /\ [][Next1024]_vars

\* ------------------------------------------ raw operands and arithmetic
\* One call of an operator that takes a raw right-hand side, or of an
\* arithmetic operator of the single-word bitmap, in a build with or without
\* overflow checks.

InitOps ==
    /\ pc = "ready"
    /\ bitmap \in {BitmapKB_from(arr) : arr \in Arrays}
                  \cup {Bitmap128_from(v) : v \in U128}
    /\ before = bitmap
    /\ op = "none"
    /\ index = 0
    /\ end = 0
    /\ value = FALSE
    /\ rhs = bitmap
    /\ scalar = 0
    /\ result = bitmap
    /\ ret = Unit
    /\ warnings = 0
    /\ BuildIdle
    /\ overflow_checks \in BOOLEAN
    /\ map_length = 8192
    /\ element_size = 64
    /\ location = 0
    /\ total = 0
    /\ adds = 0
    /\ one_result = BitmapKB_default
    /\ one_ret = Unit

\* a + b, a += b and the same for -, * and / with a bitmap operand
B128Arith ==
    /\ pc = "ready"
    /\ bitmap.kind = "B128"
    /\ \E v \in U128 :
          /\ rhs' = Bitmap128_from(v)
          /\ scalar' = v
          /\ \/ /\ Call("add")
                /\ LET r == Bitmap128_add(bitmap, Bitmap128_from(v),
                                        overflow_checks)
                   IN  result' = r.bitmap /\ ret' = r.ret
                /\ UNCHANGED <<end, bitmap, before, index, value, warnings>>
             \/ /\ Call("add_assign")
                /\ LET r == Bitmap128_add_assign(bitmap, Bitmap128_from(v),
                                               overflow_checks)
                   IN  bitmap' = r.self /\ ret' = r.ret
                /\ UNCHANGED <<end, before, index, value, result, warnings>>
             \/ /\ Call("sub")
                /\ LET r == Bitmap128_sub(bitmap, Bitmap128_from(v),
                                        overflow_checks)
                   IN  result' = r.bitmap /\ ret' = r.ret
                /\ UNCHANGED <<end, bitmap, before, index, value, warnings>>
             \/ /\ Call("sub_assign")
                /\ LET r == Bitmap128_sub_assign(bitmap, Bitmap128_from(v),
                                               overflow_checks)
                   IN  bitmap' = r.self /\ ret' = r.ret
                /\ UNCHANGED <<end, before, index, value, result, warnings>>
             \/ /\ Call("mul")
                /\ LET r == Bitmap128_mul(bitmap, Bitmap128_from(v),
                                        overflow_checks)
                   IN  result' = r.bitmap /\ ret' = r.ret
                /\ UNCHANGED <<end, bitmap, before, index, value, warnings>>
             \/ /\ Call("mul_assign")
                /\ LET r == Bitmap128_mul_assign(bitmap, Bitmap128_from(v),
                                               overflow_checks)
                   IN  bitmap' = r.self /\ ret' = r.ret
                /\ UNCHANGED <<end, before, index, value, result, warnings>>
             \/ /\ Call("div")
                /\ LET r == Bitmap128_div(bitmap, Bitmap128_from(v),
                                        overflow_checks)
                   IN  result' = r.bitmap /\ ret' = r.ret
                /\ UNCHANGED <<end, bitmap, before, index, value, warnings>>
             \/ /\ Call("div_assign")
                /\ LET r == Bitmap128_div_assign(bitmap, Bitmap128_from(v),
                                               overflow_checks)
                   IN  bitmap' = r.self /\ ret' = r.ret
                /\ UNCHANGED <<end, before, index, value, result, warnings>>

\* a & n, a &= n and the same for | and ^ with a u128 operand
B128BitU128 ==
    /\ pc = "ready"
    /\ bitmap.kind = "B128"
    /\ \E v \in U128 :
          /\ rhs' = Bitmap128_from(v)
          /\ scalar' = v
          /\ \/ /\ Call("bitand_u128")
                /\ result' = Bitmap128_bitand_u128(bitmap, v)
                /\ UNCHANGED <<end, bitmap, before, index, value, ret,
                               warnings>>
             \/ /\ Call("bitand_assign_u128")
                /\ bitmap' = Bitmap128_bitand_assign_u128(bitmap, v)
                /\ UNCHANGED <<end, before, index, value, result, ret,
                               warnings>>
             \/ /\ Call("bitor_u128")
                /\ result' = Bitmap128_bitor_u128(bitmap, v)
                /\ UNCHANGED <<end, bitmap, before, index, value, ret,
                               warnings>>
             \/ /\ Call("bitor_assign_u128")
                /\ bitmap' = Bitmap128_bitor_assign_u128(bitmap, v)
                /\ UNCHANGED <<end, before, index, value, result, ret,
                               warnings>>
             \/ /\ Call("bitxor_u128")
                /\ result' = Bitmap128_bitxor_u128(bitmap, v)
                /\ UNCHANGED <<end, bitmap, before, index, value, ret,
                               warnings>>
             \/ /\ Call("bitxor_assign_u128")
                /\ bitmap' = Bitmap128_bitxor_assign_u128(bitmap, v)
                /\ UNCHANGED <<end, before, index, value, result, ret,
                               warnings>>

\* a + n, a += n and the same for -, * and / with a u128 operand
B128ArithU128 ==
    /\ pc = "ready"
    /\ bitmap.kind = "B128"
    /\ \E v \in U128 :
          /\ rhs' = Bitmap128_from(v)
          /\ scalar' = v
          /\ \/ /\ Call("add_u128")
                /\ LET r == Bitmap128_add_u128(bitmap, v, overflow_checks)
                   IN  result' = r.bitmap /\ ret' = r.ret
                /\ UNCHANGED <<end, bitmap, before, index, value, warnings>>
             \/ /\ Call("add_assign_u128")
                /\ LET r == Bitmap128_add_assign_u128(bitmap, v,
                                                    overflow_checks)
                   IN  bitmap' = r.self /\ ret' = r.ret
                /\ UNCHANGED <<end, before, index, value, result, warnings>>
             \/ /\ Call("sub_u128")
                /\ LET r == Bitmap128_sub_u128(bitmap, v, overflow_checks)
                   IN  result' = r.bitmap /\ ret' = r.ret
                /\ UNCHANGED <<end, bitmap, before, index, value, warnings>>
             \/ /\ Call("sub_assign_u128")
                /\ LET r == Bitmap128_sub_assign_u128(bitmap, v,
                                                    overflow_checks)
                   IN  bitmap' = r.self /\ ret' = r.ret
                /\ UNCHANGED <<end, before, index, value, result, warnings>>
             \/ /\ Call("mul_u128")
                /\ LET r == Bitmap128_mul_u128(bitmap, v, overflow_checks)
                   IN  result' = r.bitmap /\ ret' = r.ret
                /\ UNCHANGED <<end, bitmap, before, index, value, warnings>>
             \/ /\ Call("mul_assign_u128")
                /\ LET r == Bitmap128_mul_assign_u128(bitmap, v,
                                                    overflow_checks)
                   IN  bitmap' = r.self /\ ret' = r.ret
                /\ UNCHANGED <<end, before, index, value, result, warnings>>
             \/ /\ Call("div_u128")
                /\ LET r == Bitmap128_div_u128(bitmap, v, overflow_checks)
                   IN  result' = r.bitmap /\ ret' = r.ret
                /\ UNCHANGED <<end, bitmap, before, index, value, warnings>>
             \/ /\ Call("div_assign_u128")
                /\ LET r == Bitmap128_div_assign_u128(bitmap, v,
                                                    overflow_checks)
                   IN  bitmap' = r.self /\ ret' = r.ret
                /\ UNCHANGED <<end, before, index, value, result, warnings>>

\* a & arr, a &= arr and the same for | and ^ with an array operand
KBBitArray ==
    /\ pc = "ready"
    /\ bitmap.kind = "KB"
    /\ \E arr \in Arrays :
          /\ rhs' = BitmapKB_from(arr)
          /\ \/ /\ Call("bitand_array")
                /\ result' = BitmapKB_bitand_array(bitmap, arr)
                /\ UNCHANGED <<end, bitmap, before, index, value, scalar, ret,
                               warnings>>
             \/ /\ Call("bitand_assign_array")
                /\ bitmap' = BitmapKB_bitand_assign_array(bitmap, arr)
                /\ UNCHANGED <<end, before, index, value, scalar, result, ret,
                               warnings>>
             \/ /\ Call("bitor_array")
                /\ result' = BitmapKB_bitor_array(bitmap, arr)
                /\ UNCHANGED <<end, bitmap, before, index, value, scalar, ret,
                               warnings>>
             \/ /\ Call("bitor_assign_array")
                /\ bitmap' = BitmapKB_bitor_assign_array(bitmap, arr)
                /\ UNCHANGED <<end, before, index, value, scalar, result, ret,
                               warnings>>
             \/ /\ Call("bitxor_array")
                /\ result' = BitmapKB_bitxor_array(bitmap, arr)
                /\ UNCHANGED <<end, bitmap, before, index, value, scalar, ret,
                               warnings>>
             \/ /\ Call("bitxor_assign_array")
                /\ bitmap' = BitmapKB_bitxor_assign_array(bitmap, arr)
                /\ UNCHANGED <<end, before, index, value, scalar, result, ret,
                               warnings>>

NextOps ==
    \/ B128Arith
    \/ B128BitU128
    \/ B128ArithU128
    \/ KBBitArray

SpecOps == InitOps /\ [][NextOps]_vars

\* ------------------------------------------------ locating a bit's word
\* The path of get and set up to the array access, for each shipped
\* capacity and usize width: the range check, then get_element_location.

InitLayout ==
    /\ CallIdle
    /\ BuildIdle
    /\ overflow_checks = TRUE
    /\ map_length \in ShippedLengths
    /\ element_size \in UsizeBits
    /\ location = 0
    /\ total = 0
    /\ adds = 0
    /\ one_result = BitmapKB_default
    /\ one_ret = Unit

\* `ret` is Err when the range check rejects the index, Panic when the
\* location underflows or lies outside the array, Ok otherwise
Locate ==
    /\ pc = "ready"
    /\ pc' = "done"
    /\ op' = "get_element_location"
    /\ \E i \in 0 .. (map_length + IndexSlack) :
          /\ index' = i
          /\ IF i >= map_length
             THEN /\ ret' = Err
                  /\ location' = location
             ELSE LET loc == get_element_location_of(i, map_length,
                                                     element_size)
                  IN  /\ location' = loc
                      /\ ret' = IF loc < 0
                                   \/ loc >= ELEMENT_COUNT_of(map_length,
                                                              element_size)
                                THEN Panic ELSE Ok(FALSE)
    /\ UNCHANGED <<bitmap, before, end, value, rhs, scalar, result, warnings>>
    /\ UNCHANGED <<buildvars, overflow_checks, map_length, element_size, total,
                   adds, one_result, one_ret>>

NextLayout ==
    \/ Locate

SpecLayout == InitLayout /\ [][NextLayout]_vars

\* ------------------------------------------- sequences of scalar additions
\* A bitmap of any initial value receives up to MaxAdds scalar additions,
\* each through `+=`.  `before` keeps the initial value, `total` the
\* sum of the scalars, `adds` their number and `warnings` the number of
\* warnings written so far; the scalar of a step is total' - total.

InitAdds ==
    /\ pc = "ready"
    /\ bitmap \in {KB(arr) : arr \in Arrays}
    /\ before = bitmap
    /\ op = "none"
    /\ index = 0
    /\ end = 0
    /\ value = FALSE
    /\ rhs = BitmapKB_default
    /\ scalar = 0
    /\ result = BitmapKB_default
    /\ ret = Unit
    /\ warnings = 0
    /\ BuildIdle
    /\ overflow_checks = TRUE
    /\ map_length = 8192
    /\ element_size = 64
    /\ location = 0
    /\ total = 0
    /\ adds = 0
    /\ one_result = BitmapKB_default
    /\ one_ret = Unit

\* bitmap += s
AddsAddAssign ==
    /\ adds < MaxAdds
    /\ ret = Unit
    /\ \E s \in Words :
          LET r == BitmapKB_add_assign(bitmap, s)
          IN  /\ bitmap' = r.self
              /\ warnings' = warnings + r.warnings
              /\ ret' = r.ret
              /\ total' = total + s
    /\ adds' = adds + 1
    /\ pc' = "done"
    /\ op' = "add_assign"
    /\ UNCHANGED <<before, index, end, value, rhs, scalar, result>>
    /\ UNCHANGED <<buildvars, overflow_checks, map_length, element_size,
                   location, one_result, one_ret>>

NextAdds ==
    \/ AddsAddAssign

SpecAdds == InitAdds /\ [][NextAdds]_vars

\* ------------------------------------------- one word, both implementations
\* Each call is made on a BitmapArch of value v and, with the same
\* arguments, on the multi-word bitmap of capacity ELEMENT_SIZE whose one
\* word is v.  result / bitmap / ret hold what the BitmapArch call gave,
\* one_result / one_ret / warnings what the multi-word call gave.

ArchIndices == 0 .. (BitmapArch_MAP_LENGTH + IndexSlack - 1)

\* the multi-word bitmap of one word
One(v) == BitmapKB_from_of([k \in {0} |-> v], ELEMENT_SIZE)

InitArch ==
    /\ pc = "ready"
    /\ bitmap \in {BitmapArch_from(v) : v \in Words}
    /\ before = bitmap
    /\ op = "none"
    /\ index = 0
    /\ end = 0
    /\ value = FALSE
    /\ rhs = bitmap
    /\ scalar = 0
    /\ result = bitmap
    /\ ret = Unit
    /\ warnings = 0
    /\ BuildIdle
    /\ overflow_checks \in BOOLEAN
    /\ map_length = 8192
    /\ element_size = 64
    /\ location = 0
    /\ total = 0
    /\ adds = 0
    /\ one_result = One(bitmap.words)
    /\ one_ret = Unit

ArchCall(name) ==
    /\ pc = "ready"
    /\ pc' = "done"
    /\ op' = name
    /\ UNCHANGED <<buildvars, overflow_checks, map_length, element_size,
                   location, total, adds>>

ArchDefault ==
    /\ ArchCall("default")
    /\ result' = BitmapArch_default
    /\ one_result' = BitmapKB_default_of(ELEMENT_SIZE)
    /\ UNCHANGED <<end, bitmap, before, index, value, rhs, scalar, ret,
                   warnings, one_ret>>

ArchNew ==
    /\ ArchCall("new")
    /\ \E v \in BOOLEAN :
          /\ value' = v
          /\ result' = BitmapArch_new(v)
          /\ one_result' = BitmapKB_new_of(v, ELEMENT_SIZE)
    /\ UNCHANGED <<end, bitmap, before, index, rhs, scalar, ret, warnings,
                   one_ret>>

ArchFromSet ==
    /\ ArchCall("from_set")
    /\ \E i \in ArchIndices :
          LET r == BitmapArch_from_set(i)
              o == BitmapKB_from_set_of(i, ELEMENT_SIZE)
          IN  /\ index' = i
              /\ ret' = r.ret
              /\ result' = r.bitmap
              /\ one_ret' = o.ret
              /\ one_result' = o.bitmap
    /\ UNCHANGED <<end, bitmap, before, value, rhs, scalar, warnings>>

ArchGet ==
    /\ ArchCall("get")
    /\ \E i \in ArchIndices :
          /\ index' = i
          /\ ret' = BitmapArch_get(bitmap, i)
          /\ one_ret' = BitmapKB_get_of(One(bitmap.words), i, ELEMENT_SIZE)
    /\ UNCHANGED <<end, bitmap, before, value, rhs, scalar, result, warnings,
                   one_result>>

ArchSet ==
    /\ ArchCall("set")
    /\ \E i \in ArchIndices, v \in BOOLEAN :
          LET r == BitmapArch_set(bitmap, i, v)
              o == BitmapKB_set_of(One(bitmap.words), i, v, ELEMENT_SIZE)
          IN  /\ index' = i
              /\ value' = v
              /\ ret' = r.ret
              /\ bitmap' = r.self
              /\ one_ret' = o.ret
              /\ one_result' = o.self
    /\ UNCHANGED <<end, before, rhs, scalar, result, warnings>>

ArchBitand ==
    /\ ArchCall("bitand")
    /\ \E v \in Words :
          /\ rhs' = BitmapArch_from(v)
          /\ result' = BitmapArch_bitand(bitmap, BitmapArch_from(v))
          /\ one_result' = BitmapKB_bitand_of(One(bitmap.words), One(v),
                                              ELEMENT_SIZE)
    /\ UNCHANGED <<end, bitmap, before, index, value, scalar, ret, warnings,
                   one_ret>>

ArchBitor ==
    /\ ArchCall("bitor")
    /\ \E v \in Words :
          /\ rhs' = BitmapArch_from(v)
          /\ result' = BitmapArch_bitor(bitmap, BitmapArch_from(v))
          /\ one_result' = BitmapKB_bitor_of(One(bitmap.words), One(v),
                                              ELEMENT_SIZE)
    /\ UNCHANGED <<end, bitmap, before, index, value, scalar, ret, warnings,
                   one_ret>>

ArchBitxor ==
    /\ ArchCall("bitxor")
    /\ \E v \in Words :
          /\ rhs' = BitmapArch_from(v)
          /\ result' = BitmapArch_bitxor(bitmap, BitmapArch_from(v))
          /\ one_result' = BitmapKB_bitxor_of(One(bitmap.words), One(v),
                                              ELEMENT_SIZE)
    /\ UNCHANGED <<end, bitmap, before, index, value, scalar, ret, warnings,
                   one_ret>>

\* bitmap + s on both
ArchAddUsize ==
    /\ ArchCall("add_usize")
    /\ \E s \in Words :
          LET r == BitmapArch_add_usize(bitmap, s, overflow_checks)
              o == BitmapKB_add_of(One(bitmap.words), s, ELEMENT_SIZE)
          IN  /\ scalar' = s
              /\ ret' = r.ret
              /\ result' = r.bitmap
              /\ one_ret' = o.ret
              /\ one_result' = o.bitmap
              /\ warnings' = o.warnings
    /\ UNCHANGED <<end, bitmap, before, index, value, rhs>>

NextArch ==
    \/ ArchDefault
    \/ ArchNew
    \/ ArchFromSet
    \/ ArchGet
    \/ ArchSet
    \/ ArchBitand
    \/ ArchBitor
    \/ ArchBitxor
    \/ ArchAddUsize

SpecArch == InitArch /\ [][NextArch]_vars

\* ---------------------------------------------------------------- claims

\* the operations of either type, by the kind of the receiver
Capacity(b) ==
    IF b.kind = "KB" THEN MAP_LENGTH
    ELSE IF b.kind = "B128" THEN Bitmap128_MAP_LENGTH
    ELSE Bitmap8_MAP_LENGTH

Get(b, i) ==
    IF b.kind = "KB" THEN BitmapKB_get(b, i)
    ELSE IF b.kind = "B128" THEN Bitmap128_get(b, i)
    ELSE Bitmap8_get(b, i)

Zero(b) ==
    IF b.kind = "KB" THEN BitmapKB_default
    ELSE IF b.kind = "B128" THEN Bitmap128_default
    ELSE Bitmap8_default

Full(b) ==
    IF b.kind = "KB" THEN BitmapKB_new(TRUE)
    ELSE IF b.kind = "B128" THEN Bitmap128_new(TRUE)
    ELSE Bitmap8_new(TRUE)

\* the bit indices of a bitmap
BitsOf(b) == 0 .. (Capacity(b) - 1)

\* the big integer a word array stands for, array index 0 most significant
RECURSIVE ValueFrom(_, _)
ValueFrom(arr, k) ==
    IF k > WordCount - 1 THEN 0
    ELSE arr[k] * (2 ^ (WordBits * (WordCount - 1 - k))) + ValueFrom(arr, k + 1)

V(b) == ValueFrom(b.words, 0)

Called(name) == pc = "done" /\ op = name

\* C1: on a multi-word bitmap, after set(i, true) returns Ok for an index i
\* below the capacity, get(i) returns Ok(true) and get(j) returns what it
\* returned before the set for every other j below the capacity.
C1_SetThenGet ==
    (Called("set") /\ bitmap.kind = "KB" /\ value /\ index < MAP_LENGTH
       /\ ret.tag = "Ok")
    => /\ BitmapKB_get(bitmap, index) = Ok(TRUE)
       /\ \A j \in 0 .. (MAP_LENGTH - 1) :
             j # index => BitmapKB_get(bitmap, j) = BitmapKB_get(before, j)

\* a set of a clear bit in the most significant word, other bits set and clear
C1_Witness ==
    /\ Called("set") /\ bitmap.kind = "KB" /\ value /\ ret.tag = "Ok"
    /\ index >= WordBits
    /\ BitmapKB_get(before, index) = Ok(FALSE)
    /\ BitmapKB_get(bitmap, index) = Ok(TRUE)
    /\ \E j, k \in 0 .. (MAP_LENGTH - 1) :
          /\ j # index /\ k # index
          /\ BitmapKB_get(before, j) = Ok(TRUE)
          /\ BitmapKB_get(before, k) = Ok(FALSE)

\* C2: word order.  Starting from the all-zero multi-word bitmap, set(i, true)
\* leaves 2^(i % W) in array element K - 1 - (i / W) and 0 in every other
\* element.
C2_WordOrder ==
    (Called("set") /\ bitmap.kind = "KB" /\ value /\ ret.tag = "Ok"
       /\ before = BitmapKB_default)
    => \A k \in 0 .. (WordCount - 1) :
          bitmap.words[k] =
             IF k = WordCount - 1 - (index \div WordBits)
             THEN 2 ^ (index % WordBits) ELSE 0

\* the spec's example scaled: with two words, the bit one past the first
\* word's width plus one lands at offset 1 of array element 0
C2_Witness ==
    /\ Called("set") /\ bitmap.kind = "KB" /\ value /\ ret.tag = "Ok"
    /\ before = BitmapKB_default
    /\ index = WordBits * (WordCount - 1) + 1
    /\ bitmap.words[0] = 2
    /\ bitmap.words[WordCount - 1] = 0

\* the bitmap an add or add_assign leaves: the returned one, or the receiver
Sum == IF op = "add" THEN result ELSE bitmap

CalledAdd == pc = "done" /\ op \in {"add", "add_assign"} /\ bitmap.kind = "KB"

\* C3: scalar addition on a multi-word bitmap is addition modulo 2^(W*K) of
\* the big integer the words stand for (highest array index least
\* significant), for add and for add_assign and every scalar in [0, 2^W).
C3_AddIsModular ==
    CalledAdd
    => /\ ret.tag = "Unit"
       /\ V(Sum) = (V(before) + scalar) % (2 ^ (WordBits * WordCount))

\* an add whose carry ripples out of the least significant word
C3_Witness ==
    /\ CalledAdd
    /\ scalar > 1
    /\ before.words[WordCount - 1] + scalar > 2 ^ WordBits
    /\ V(Sum) = V(before) + scalar
    /\ Sum.words[WordCount - 2] = before.words[WordCount - 2] + 1

\* C4: one scalar add writes the overflow warning once when V + s >= 2^(W*K)
\* and not at all otherwise; full() + 1 is zero() with one warning, and
\* [0, .., 0, MAX] + 1 is [0, .., 1, 0] with none.
C4_WarningIffOverflow ==
    CalledAdd
    => /\ warnings = (IF V(before) + scalar >= 2 ^ (WordBits * WordCount)
                      THEN 1 ELSE 0)
       /\ (before = BitmapKB_new(TRUE) /\ scalar = 1)
             => (Sum = BitmapKB_default /\ warnings = 1)
       /\ (scalar = 1 /\ \A k \in 0 .. (WordCount - 1) :
              before.words[k] = IF k = WordCount - 1 THEN (2 ^ WordBits) - 1
                                ELSE 0)
             => /\ warnings = 0
                /\ \A k \in 0 .. (WordCount - 1) :
                      Sum.words[k] = IF k = WordCount - 2 THEN 1 ELSE 0

\* full() += 1
C4_Witness ==
    /\ CalledAdd
    /\ op = "add_assign"
    /\ before = BitmapKB_new(TRUE)
    /\ scalar = 1
    /\ bitmap = BitmapKB_default
    /\ warnings = 1

\* C5: a scalar add on a multi-word bitmap always runs to completion: neither
\* usize::MAX - carry nor the addition of the non-wrapping branch overflows.
C5_AddNeverFaults ==
    CalledAdd => ret.tag # "Panic"

\* an add that overflows the whole bitmap and still returns
C5_Witness ==
    /\ CalledAdd
    /\ op = "add"
    /\ V(before) + scalar > 2 ^ (WordBits * WordCount)
    /\ ret.tag = "Unit"
    /\ V(result) = V(before) + scalar - 2 ^ (WordBits * WordCount)

\* C6: on a bitmap of either type, get(index) with index >= capacity returns
\* an error, set(index, v) with index >= capacity returns an error for both
\* v, and the failed set leaves the receiver as it was.
C6_OutOfRangeRejected ==
    /\ (Called("get") /\ index >= Capacity(bitmap)) => ret = Err
    /\ (Called("set") /\ index >= Capacity(bitmap))
          => (ret = Err /\ bitmap = before)

\* set(N, true) rejected on a bitmap that is neither empty nor full
C6_Witness ==
    /\ Called("set")
    /\ bitmap.kind = "KB"
    /\ index = MAP_LENGTH
    /\ value
    /\ ret = Err
    /\ bitmap = before
    /\ before # BitmapKB_default
    /\ before # BitmapKB_new(TRUE)

\* C7: from_set(index) is None exactly when index >= capacity and never
\* panics; otherwise it is Some(b), b being the all-zero bitmap after
\* set(index, true): get(index) is true and every other bit is false.
C7_FromSet ==
    Called("from_set")
    => /\ ret.tag # "Panic"
       /\ (ret = None) <=> (index >= Capacity(bitmap))
       /\ (index < Capacity(bitmap))
             => /\ ret = Some
                /\ \A j \in BitsOf(bitmap) : Get(result, j) = Ok(j = index)
                /\ bitmap.kind = "KB"
                      => result = BitmapKB_set(BitmapKB_default, index, TRUE).self
                /\ bitmap.kind = "B128"
                      => result = Bitmap128_set(Bitmap128_default, index, TRUE).self

\* from_set of the highest index of the multi-word bitmap
C7_Witness ==
    /\ Called("from_set")
    /\ bitmap.kind = "KB"
    /\ index = MAP_LENGTH - 1
    /\ ret = Some
    /\ result.words[0] = 2 ^ (WordBits - 1)

\* bit o of a word
WordBit(w, o) == ((w \div (2 ^ o)) % 2) = 1

\* the boolean the operator named by the call computes on two bits
BoolOp(name, x, y) ==
    IF name \in {"bitand", "bitand_assign"} THEN x /\ y
    ELSE IF name \in {"bitor", "bitor_assign"} THEN x \/ y
    ELSE x # y

\* the bitmap a boolean operator leaves: the receiver for the assign forms
Out == IF op \in {"bitand_assign", "bitor_assign", "bitxor_assign"}
       THEN bitmap ELSE result

CalledBoolOp ==
    pc = "done" /\ op \in {"bitand", "bitor", "bitxor",
                           "bitand_assign", "bitor_assign", "bitxor_assign"}

\* C8: AND, OR and XOR of two bitmaps of one capacity are index-aligned: bit
\* i of the result is the boolean AND / OR / XOR of bit i of the operands,
\* for every i below the capacity, and word k of a multi-word result is the
\* AND / OR / XOR of word k of the operands.
C8_BoolOpsBitwise ==
    CalledBoolOp
    => /\ \A i \in BitsOf(before) :
             Get(Out, i) = Ok(BoolOp(op, Get(before, i).val, Get(rhs, i).val))
       /\ bitmap.kind = "KB"
             => \A k \in 0 .. (WordCount - 1), o \in 0 .. (WordBits - 1) :
                   WordBit(Out.words[k], o) =
                      BoolOp(op, WordBit(before.words[k], o),
                                 WordBit(rhs.words[k], o))

\* an OR of multi-word operands that differ in each word
C8_Witness ==
    /\ Called("bitor")
    /\ bitmap.kind = "KB"
    /\ before.words[0] # rhs.words[0]
    /\ before.words[WordCount - 1] # rhs.words[WordCount - 1]
    /\ before.words[0] # before.words[WordCount - 1]
    /\ rhs.words[0] # rhs.words[WordCount - 1]
    /\ result # before
    /\ result # rhs

\* C9: A & B = B & A; A | full() = full(); A ^ A = zero(); !(!A) = A (NOT is
\* defined on the single-word bitmaps only).
C9_BooleanLaws ==
    /\ (Called("bitand") /\ bitmap.kind = "KB")
          => result = BitmapKB_bitand(rhs, before)
    /\ (Called("bitand") /\ bitmap.kind = "B128")
          => result = Bitmap128_bitand(rhs, before)
    /\ (Called("bitor") /\ rhs = Full(before)) => result = Full(before)
    /\ (Called("bitxor") /\ rhs = before) => result = Zero(before)
    /\ (Called("not") /\ bitmap.kind = "B128")
          => Bitmap128_not(result) = before
    /\ (Called("not") /\ bitmap.kind = "B8") => Bitmap8_not(result) = before

\* an AND of two different multi-word bitmaps, neither containing the other
C9_Witness ==
    /\ Called("bitand")
    /\ bitmap.kind = "KB"
    /\ result # before
    /\ result # rhs
    /\ result # BitmapKB_default
    /\ result = BitmapKB_bitand(rhs, before)

\* C10: a & full = a; a & zero = zero; a | zero = a; a ^ zero = a, with
\* zero = default() = new(false) and full = new(true), the bitmap of all-MAX
\* words.
C10_IdentityLaws ==
    /\ BitmapKB_default = BitmapKB_new(FALSE)
    /\ Bitmap128_default = Bitmap128_new(FALSE)
    /\ BitmapKB_new(TRUE) =
          BitmapKB_from([k \in 0 .. (WordCount - 1) |-> (2 ^ WordBits) - 1])
    /\ Bitmap128_new(TRUE) = Bitmap128_from((2 ^ PrimBits) - 1)
    /\ (Called("bitand") /\ rhs = Full(before)) => result = before
    /\ (Called("bitand") /\ rhs = Zero(before))
          => /\ result = Zero(before)
             /\ bitmap.kind = "KB"
                   => \A k \in 0 .. (WordCount - 1) : result.words[k] = 0
             /\ bitmap.kind = "B128" => result.words = 0
    /\ (Called("bitor") /\ rhs = Zero(before)) => result = before
    /\ (Called("bitxor") /\ rhs = Zero(before)) => result = before

\* a & full on a multi-word a that is neither zero nor full
C10_Witness ==
    /\ Called("bitand")
    /\ bitmap.kind = "KB"
    /\ rhs = BitmapKB_new(TRUE)
    /\ before # BitmapKB_default
    /\ before # BitmapKB_new(TRUE)
    /\ result = before

\* the single-word operations by the kind of the receiver
CreateBitMask(b, begin, finish, v) ==
    IF b.kind = "B128" THEN Bitmap128_create_bit_mask(begin, finish, v)
    ELSE Bitmap8_create_bit_mask(begin, finish, v)

Or(x, y) == IF x.kind = "B128" THEN Bitmap128_bitor(x, y) ELSE Bitmap8_bitor(x, y)

And(x, y) ==
    IF x.kind = "B128" THEN Bitmap128_bitand(x, y) ELSE Bitmap8_bitand(x, y)

Not(x) == IF x.kind = "B128" THEN Bitmap128_not(x) ELSE Bitmap8_not(x)

Set(b, i, v) ==
    IF b.kind = "B128" THEN Bitmap128_set(b, i, v) ELSE Bitmap8_set(b, i, v)

Min(x, y) == IF x < y THEN x ELSE y

RECURSIVE SetEach(_, _, _, _)
SetEach(b, i, hi, v) ==
    IF i >= hi THEN b ELSE SetEach(Set(b, i, v).self, i + 1, hi, v)

\* C18: set_range(begin, end, value) leaves self | create_bit_mask(begin,
\* end, true) when value is true and self & create_bit_mask(begin, end,
\* false) when it is false: every bit i with begin <= i < min(end, N) equals
\* value, every other bit is unchanged, and the receiver is what set(i,
\* value) for each such i leaves.  From zero, set_range(2, 7, true) gives
\* 0b1111100, and set_range(3, 5, false) on that gives 0b1100100.
C18_SetRange ==
    Called("set_range")
    => /\ ret = Unit
       /\ value => bitmap = Or(before, CreateBitMask(before, index, end, TRUE).bitmap)
       /\ ~value
             => bitmap = And(before, CreateBitMask(before, index, end, FALSE).bitmap)
       /\ \A i \in BitsOf(before) :
             Get(bitmap, i) =
                IF index <= i /\ i < Min(end, Capacity(before))
                THEN Ok(value) ELSE Get(before, i)
       /\ bitmap = SetEach(before, index, Min(end, Capacity(before)), value)
       /\ (before = Bitmap8_default /\ index = 2 /\ end = 7 /\ value)
             => bitmap.words = 124
       /\ (before = Bitmap8_from(124) /\ index = 3 /\ end = 5 /\ ~value)
             => bitmap.words = 100

\* the second step of the example: clearing bits 3 and 4 of 0b1111100
C18_Witness ==
    /\ Called("set_range")
    /\ bitmap.kind = "B8"
    /\ before = Bitmap8_from(124)
    /\ index = 3 /\ end = 5 /\ ~value
    /\ bitmap = Bitmap8_from(100)

\* C19: construction.  new(true) has every word equal to the maximum of the
\* word type and get(i) true for every i below the capacity; new(false)
\* equals default(), which has every word 0 and get(i) false for every i.
C19_Construction ==
    /\ Called("new")
          => /\ result = (IF value THEN Full(bitmap) ELSE Zero(bitmap))
             /\ \A i \in BitsOf(bitmap) : Get(result, i) = Ok(value)
             /\ bitmap.kind = "KB"
                   => /\ \A k \in 0 .. (WordCount - 1) :
                            result.words[k] =
                               IF value THEN (2 ^ WordBits) - 1 ELSE 0
                      /\ ~value => BitmapKB_eq(result, BitmapKB_default)
             /\ bitmap.kind = "B128"
                   => result.words = IF value THEN (2 ^ PrimBits) - 1 ELSE 0
             /\ bitmap.kind = "B8"
                   => result.words = IF value THEN 255 ELSE 0
    /\ Called("default")
          => /\ result = Zero(bitmap)
             /\ \A i \in BitsOf(bitmap) : Get(result, i) = Ok(FALSE)
             /\ bitmap.kind = "KB"
                   => \A k \in 0 .. (WordCount - 1) : result.words[k] = 0
             /\ bitmap.kind = "B128" => result.words = 0

\* new(true) of the multi-word bitmap
C19_Witness ==
    /\ Called("new")
    /\ bitmap.kind = "KB"
    /\ value
    /\ result.words[0] = (2 ^ WordBits) - 1
    /\ result.words[WordCount - 1] = (2 ^ WordBits) - 1
    /\ BitmapKB_get(result, MAP_LENGTH - 1) = Ok(TRUE)

\* the operations that mutate their receiver
Mutators ==
    {"set", "set_range", "add_assign",
     "bitand_assign", "bitor_assign", "bitxor_assign"}

\* C20: bitmaps are independent values.  `before` is the bitmap a the
\* receiver b was copied from: no operation on b changes a, and after
\* b += s with s nonzero the multi-word b is not equal to a, also when the
\* add overflows the whole capacity.
C20_CopiesIndependent ==
    /\ [][before' = before]_vars
    /\ []((Called("add_assign") /\ scalar > 0)
             => (~BitmapKB_eq(bitmap, before) /\ bitmap # before))

\* b += s that overflows the whole capacity, a kept as it was
C20_Witness ==
    /\ Called("add_assign")
    /\ op \in Mutators
    /\ scalar > 0
    /\ warnings = 1
    /\ before.words[0] = (2 ^ WordBits) - 1
    /\ bitmap.words[0] = 0
    /\ ~BitmapKB_eq(bitmap, before)

\* the indices a successful set last set to true
TrueBits(m) == {i \in 0 .. (MAP_LENGTH - 1) : m[i]}

\* C11: equality is structural.  Two multi-word bitmaps are equal iff every
\* word is equal, iff get(i) agrees for every i below the capacity; bitmaps
\* built from default() by the same successful set calls are equal and
\* bitmaps built with different sets of true indices are not.
C11_EqualityStructural ==
    step = "compared"
    => /\ eq <=> (\A k \in 0 .. (WordCount - 1) : bitmap_a.words[k] = bitmap_b.words[k])
       /\ eq <=> (\A i \in 0 .. (MAP_LENGTH - 1) :
                     BitmapKB_get(bitmap_a, i) = BitmapKB_get(bitmap_b, i))
       /\ (ma = mb) => eq
       /\ (TrueBits(ma) # TrueBits(mb)) => ~eq

\* bitmaps that agree in the least significant word and differ in another
C11_Witness ==
    /\ step = "compared"
    /\ ~eq
    /\ bitmap_a.words[WordCount - 1] = bitmap_b.words[WordCount - 1]
    /\ bitmap_a.words[WordCount - 1] # 0
    /\ TrueBits(ma) # TrueBits(mb)

\* C13: the order of multi-word bitmaps is lexicographic over the word array
\* from index 0 and so is the numeric order of the big integer V: a < b iff
\* V(a) < V(b); from_set(i) < from_set(j) whenever i < j < N.
C13_OrderIsNumeric ==
    step = "compared"
    => /\ (ord = "Less") <=> (V(bitmap_a) < V(bitmap_b))
       /\ (ord = "Equal") <=> (V(bitmap_a) = V(bitmap_b))
       /\ (ord = "Greater") <=> (V(bitmap_a) > V(bitmap_b))
       /\ BitmapKB_lt(bitmap_a, bitmap_b) <=> (V(bitmap_a) < V(bitmap_b))
       /\ (Cardinality(TrueBits(ma)) = 1 /\ Cardinality(TrueBits(mb)) = 1)
             => LET i == CHOOSE x \in TrueBits(ma) : TRUE
                    j == CHOOSE x \in TrueBits(mb) : TRUE
                IN  /\ bitmap_a = BitmapKB_from_set(i).bitmap
                    /\ bitmap_b = BitmapKB_from_set(j).bitmap
                    /\ i < j => (ord = "Less" /\ BitmapKB_lt(bitmap_a, bitmap_b))

\* a below b although a's least significant word is the larger one
C13_Witness ==
    /\ step = "compared"
    /\ ord = "Less"
    /\ bitmap_a.words[0] < bitmap_b.words[0]
    /\ bitmap_a.words[WordCount - 1] > bitmap_b.words[WordCount - 1]
    /\ V(bitmap_a) < V(bitmap_b)

\* the set calls of the scenario, in the order the test makes them
Scenario ==
    <<<<"a", 1054>>, <<"a", 1000>>, <<"b", 1054>>, <<"b", 1000>>,
      <<"c", 1054>>>>

\* the test has made the calls of the scenario, or the first few of them
OnScenario ==
    /\ Len(calls) <= Len(Scenario)
    /\ \A k \in 1 .. Len(calls) : calls[k] = Scenario[k]

\* C12: the equality scenario on the 1024-bit bitmap.  Every set call of
\* the scenario succeeds; built by set(1054, true) and set(1000, true), a
\* and b have bits 1000 and 1054 set and are equal, and c, built by
\* set(1054, true) alone, is equal to neither.
C12_Scenario1024 ==
    OnScenario
    => /\ ~panicked
       /\ (calls = Scenario /\ step \in {"assert_eq", "assert_ne", "passed"})
             => /\ Bitmap1024_get(bitmap_a, 1000) = Ok(TRUE)
                /\ Bitmap1024_get(bitmap_a, 1054) = Ok(TRUE)
                /\ Bitmap1024_get(bitmap_b, 1000) = Ok(TRUE)
                /\ Bitmap1024_get(bitmap_b, 1054) = Ok(TRUE)
                /\ Bitmap1024_eq(bitmap_a, bitmap_b)
                /\ ~Bitmap1024_eq(bitmap_a, bitmap_c)
                /\ ~Bitmap1024_eq(bitmap_b, bitmap_c)

Xor(x, y) ==
    IF x.kind = "B128" THEN Bitmap128_bitxor(x, y) ELSE Bitmap8_bitxor(x, y)

\* the maximum of the word behind a single-word bitmap
WordMax(x) == IF x.kind = "B128" THEN (2 ^ PrimBits) - 1 ELSE 255

\* C22: NOT on a single-word bitmap complements every bit of the word:
\* !a = a ^ full() and the value of !a is MAX - value(a); !zero = full,
\* !full = zero, and !from(0b1010) = from(MAX - 0b1010), which is not
\* from(0b0101).
C22_NotComplements ==
    Called("not")
    => /\ result = Xor(before, Full(before))
       /\ result.words = WordMax(before) - before.words
       /\ \A i \in BitsOf(before) : Get(result, i).val = ~Get(before, i).val
       /\ before = Zero(before) => result = Full(before)
       /\ before = Full(before) => result = Zero(before)
       /\ before = Bitmap8_from(10)
             => (result = Bitmap8_from(255 - 10) /\ result # Bitmap8_from(5))

\* !from(0b1010) on the Bitmap8
C22_Witness ==
    /\ Called("not")
    /\ before = Bitmap8_from(10)
    /\ result = Bitmap8_from(245)

\* C23: on a single-word bitmap, set(i, true) with i below the capacity adds
\* exactly 2^i to the underlying integer when bit i is clear and leaves the
\* integer unchanged when bit i is set; from(1) then set(4, true) has value
\* 17 and default() then set(4, true) has value 16.
C23_SetAddsPowerOfTwo ==
    (Called("set") /\ bitmap.kind \in {"B128", "B8"} /\ value
       /\ index < Capacity(before))
    => /\ ret.tag = "Ok"
       /\ Get(before, index) = Ok(FALSE)
             => bitmap.words = before.words + 2 ^ index
       /\ Get(before, index) = Ok(TRUE) => bitmap.words = before.words
       /\ (before = Bitmap8_from(1) /\ index = 4) => bitmap.words = 17
       /\ (before = Bitmap8_default /\ index = 4) => bitmap.words = 16

\* from(1) then set(4, true)
C23_Witness ==
    /\ Called("set")
    /\ value
    /\ before = Bitmap8_from(1)
    /\ index = 4
    /\ bitmap = Bitmap8_from(17)

\* C26: a successful set(i, value) on a multi-word bitmap changes at most one
\* bit of one word: only array element K - 1 - (i / W) may change, in it
\* only bit i % W, which becomes value (OR with the single-bit mask for true,
\* AND with MAX minus the mask for false); every other word is unchanged.
C26_SetFrame ==
    (Called("set") /\ bitmap.kind = "KB" /\ ret.tag = "Ok")
    => LET loc == WordCount - 1 - (index \div WordBits)
           off == index % WordBits
       IN  /\ \A k \in 0 .. (WordCount - 1) :
                 k # loc => bitmap.words[k] = before.words[k]
           /\ \A o \in 0 .. (WordBits - 1) :
                 o # off => WordBit(bitmap.words[loc], o)
                              = WordBit(before.words[loc], o)
           /\ WordBit(bitmap.words[loc], off) = value
           /\ bitmap.words[loc] =
                 IF value THEN or_bits(before.words[loc], 2 ^ off)
                 ELSE and_bits(before.words[loc], (2 ^ WordBits) - 1 - 2 ^ off)

\* set(i, false) of a set bit in the most significant word, which keeps
\* another set bit
C26_Witness ==
    /\ Called("set")
    /\ bitmap.kind = "KB"
    /\ ret.tag = "Ok"
    /\ ~value
    /\ index >= WordBits * (WordCount - 1)
    /\ BitmapKB_get(before, index) = Ok(TRUE)
    /\ BitmapKB_get(bitmap, index) = Ok(FALSE)
    /\ bitmap.words[0] # 0
    /\ bitmap.words[WordCount - 1] = before.words[WordCount - 1]

\* C27: on a multi-word bitmap each in-place operator leaves the value its
\* value-returning form returns, and the value-returning form leaves its
\* operand as it was: a &= b, a |= b, a ^= b leave a & b, a | b, a ^ b, and
\* a += s leaves a + s with the same number of overflow warnings.
C27_InPlaceIsValueForm ==
    bitmap.kind = "KB"
    => /\ Called("bitand_assign") => bitmap = BitmapKB_bitand(before, rhs)
       /\ Called("bitor_assign") => bitmap = BitmapKB_bitor(before, rhs)
       /\ Called("bitxor_assign") => bitmap = BitmapKB_bitxor(before, rhs)
       /\ Called("bitand")
             => (bitmap = before
                 /\ result = BitmapKB_bitand_assign(before, rhs))
       /\ Called("bitor")
             => (bitmap = before
                 /\ result = BitmapKB_bitor_assign(before, rhs))
       /\ Called("bitxor")
             => (bitmap = before
                 /\ result = BitmapKB_bitxor_assign(before, rhs))
       /\ Called("add_assign")
             => LET r == BitmapKB_add(before, scalar)
                IN  /\ bitmap = r.bitmap
                    /\ warnings = r.warnings
                    /\ ret = r.ret
       /\ Called("add")
             => LET r == BitmapKB_add_assign(before, scalar)
                IN  /\ bitmap = before
                    /\ result = r.self
                    /\ warnings = r.warnings
                    /\ ret = r.ret

\* a ^= b with operands that share a set bit, so that ^ is not |
C27_Witness ==
    /\ Called("bitxor_assign")
    /\ bitmap.kind = "KB"
    /\ BitmapKB_bitand(before, rhs) # BitmapKB_default
    /\ bitmap # before
    /\ bitmap # rhs
    /\ bitmap = BitmapKB_bitxor(before, rhs)

\* the arithmetic operators of the single-word bitmap, by what they compute
Adds == {"add", "add_assign", "add_u128", "add_assign_u128"}

Subs == {"sub", "sub_assign", "sub_u128", "sub_assign_u128"}

Muls == {"mul", "mul_assign", "mul_u128", "mul_assign_u128"}

Divs == {"div", "div_assign", "div_u128", "div_assign_u128"}

\* the call is an arithmetic operation on a single-word bitmap whose
\* mathematical result the word cannot hold, or a division by zero
NotRepresentable ==
    /\ pc = "done"
    /\ bitmap.kind = "B128"
    /\ \/ op \in Adds /\ before.words + scalar > (2 ^ PrimBits) - 1
       \/ op \in Subs /\ before.words - scalar < 0
       \/ op \in Muls /\ before.words * scalar > (2 ^ PrimBits) - 1
       \/ op \in Divs /\ scalar = 0

\* C21: on a single-word bitmap an arithmetic operation whose mathematical
\* result is not representable in the word, or a division by zero, ends in
\* a fatal fault: it does not wrap to a value and returns no error value,
\* in the bitmap-operand and integer-operand forms, value-returning and
\* assign.
C21_ArithmeticFaults ==
    NotRepresentable => ret = Panic

\* C24: an operator with a raw right-hand side gives the result it gives
\* with the wrapped right-hand side: a & r, a | r, a ^ r on the multi-word
\* bitmap (r an array) and on the single-word one (r an integer), and on
\* the single-word one a + r, a - r, a * r, a / r, faults included.
C24_RawIsWrapped ==
    /\ Called("bitand_array") => result = BitmapKB_bitand(before, rhs)
    /\ Called("bitand_assign_array")
          => bitmap = BitmapKB_bitand_assign(before, rhs)
    /\ Called("bitand_u128")
          => result = Bitmap128_bitand(before, Bitmap128_from(scalar))
    /\ Called("bitand_assign_u128")
          => bitmap = Bitmap128_bitand_assign(before, Bitmap128_from(scalar))
    /\ Called("bitor_array") => result = BitmapKB_bitor(before, rhs)
    /\ Called("bitor_assign_array")
          => bitmap = BitmapKB_bitor_assign(before, rhs)
    /\ Called("bitor_u128")
          => result = Bitmap128_bitor(before, Bitmap128_from(scalar))
    /\ Called("bitor_assign_u128")
          => bitmap = Bitmap128_bitor_assign(before, Bitmap128_from(scalar))
    /\ Called("bitxor_array") => result = BitmapKB_bitxor(before, rhs)
    /\ Called("bitxor_assign_array")
          => bitmap = BitmapKB_bitxor_assign(before, rhs)
    /\ Called("bitxor_u128")
          => result = Bitmap128_bitxor(before, Bitmap128_from(scalar))
    /\ Called("bitxor_assign_u128")
          => bitmap = Bitmap128_bitxor_assign(before, Bitmap128_from(scalar))
    /\ Called("add_u128")
          => LET w == Bitmap128_add(before, Bitmap128_from(scalar),
                                    overflow_checks)
             IN  ret = w.ret /\ (ret = Unit => result = w.bitmap)
    /\ Called("add_assign_u128")
          => LET w == Bitmap128_add_assign(before, Bitmap128_from(scalar),
                                           overflow_checks)
             IN  ret = w.ret /\ (ret = Unit => bitmap = w.self)
    /\ Called("sub_u128")
          => LET w == Bitmap128_sub(before, Bitmap128_from(scalar),
                                    overflow_checks)
             IN  ret = w.ret /\ (ret = Unit => result = w.bitmap)
    /\ Called("sub_assign_u128")
          => LET w == Bitmap128_sub_assign(before, Bitmap128_from(scalar),
                                           overflow_checks)
             IN  ret = w.ret /\ (ret = Unit => bitmap = w.self)
    /\ Called("mul_u128")
          => LET w == Bitmap128_mul(before, Bitmap128_from(scalar),
                                    overflow_checks)
             IN  ret = w.ret /\ (ret = Unit => result = w.bitmap)
    /\ Called("mul_assign_u128")
          => LET w == Bitmap128_mul_assign(before, Bitmap128_from(scalar),
                                           overflow_checks)
             IN  ret = w.ret /\ (ret = Unit => bitmap = w.self)
    /\ Called("div_u128")
          => LET w == Bitmap128_div(before, Bitmap128_from(scalar),
                                    overflow_checks)
             IN  ret = w.ret /\ (ret = Unit => result = w.bitmap)
    /\ Called("div_assign_u128")
          => LET w == Bitmap128_div_assign(before, Bitmap128_from(scalar),
                                           overflow_checks)
             IN  ret = w.ret /\ (ret = Unit => bitmap = w.self)

\* a - r with r above the value of a, in a build that checks overflow
C24_Witness ==
    /\ Called("sub_u128")
    /\ overflow_checks
    /\ before.words > 0
    /\ before.words < scalar
    /\ ret = Panic
    /\ Bitmap128_sub(before, Bitmap128_from(scalar), overflow_checks).ret = Panic

\* C28: for every shipped capacity N (1024, 4096, 8192) and usize width W
\* (32 or 64), ELEMENT_COUNT * W >= N, and for every index below N the
\* element location ELEMENT_COUNT - 1 - i / W does not underflow and lies in
\* [0, ELEMENT_COUNT): a get or set that passes the range check stays
\* inside the word array.
C28_LocationInArray ==
    /\ map_length \in {1024, 4096, 8192}
    /\ element_size \in {32, 64}
    /\ (map_length \div element_size) * element_size >= map_length
    /\ pc = "done"
          => /\ (index >= map_length) <=> (ret = Err)
             /\ index < map_length
                   => /\ ret = Ok(FALSE)
                      /\ location >= 0
                      /\ location < map_length \div element_size
                      /\ location = (map_length \div element_size) - 1
                                       - (index \div element_size)

\* the lowest index of the 1024-bit bitmap on a 32-bit target: the last word
C28_Witness ==
    /\ pc = "done"
    /\ map_length = 1024
    /\ element_size = 32
    /\ index = 0
    /\ ret = Ok(FALSE)
    /\ location = 31

\* C30: after any sequence of scalar additions s_1 .. s_n on a multi-word
\* bitmap of initial value V0, the value is (V0 + s_1 + ... + s_n) modulo
\* 2^(W*K), which depends on the scalars' sum and not on their order; each
\* `+=` completes and writes at most one warning, and the number of
\* warnings written in total is the quotient of V0 + s_1 + ... + s_n by
\* 2^(W*K).
C30_AddSequence ==
    /\ [][/\ warnings' >= warnings
          /\ warnings' <= warnings + 1
          /\ V(bitmap') = (V(bitmap) + (total' - total))
                              % (2 ^ (WordBits * WordCount))
         ]_vars
    /\ [](/\ ret = Unit
          /\ V(bitmap) = (V(before) + total) % (2 ^ (WordBits * WordCount))
          /\ warnings = (V(before) + total) \div (2 ^ (WordBits * WordCount)))

\* a sequence from the full bitmap that wraps twice
C30_Witness ==
    /\ adds > 1
    /\ before = KB([k \in 0 .. (WordCount - 1) |-> usize_MAX])
    /\ total > 2 ^ (WordBits * WordCount)
    /\ warnings = 2
    /\ V(bitmap) = total - 1 - 2 ^ (WordBits * WordCount)

\* C29: after any sequence of set(index, value) calls, in or out of range,
\* on default(), get(i) returns for every i in range the value of the most
\* recent successful set on i, or false when there was none (`ma` and `mb`
\* record exactly that); a get out of range is an error.  On every bitmap
\* such a sequence builds, an out-of-range set is an error that changes
\* nothing, repeating a set changes nothing more, and sets on two distinct
\* indices give the same bitmap in either order.
C29_SetGetRefinesMap ==
    /\ \A i \in 0 .. (MAP_LENGTH - 1) :
          /\ BitmapKB_get(bitmap_a, i) = Ok(ma[i])
          /\ BitmapKB_get(bitmap_b, i) = Ok(mb[i])
    /\ \A i \in Indices \ (0 .. (MAP_LENGTH - 1)) :
          /\ BitmapKB_get(bitmap_a, i) = Err
          /\ BitmapKB_get(bitmap_b, i) = Err
    /\ step = "a"
          => \A i \in Indices, v \in BOOLEAN :
                LET once == BitmapKB_set(bitmap_a, i, v)
                IN  /\ i >= MAP_LENGTH
                          => once = [ret |-> Err, self |-> bitmap_a]
                    /\ i < MAP_LENGTH => once.ret = Ok(FALSE)
                    /\ BitmapKB_set(once.self, i, v) = once
                    /\ \A j \in Indices \ {i}, w \in BOOLEAN :
                          BitmapKB_set(once.self, j, w).self =
                             BitmapKB_set(BitmapKB_set(bitmap_a, j, w).self,
                                          i, v).self

\* a holds a bit in its first word and none in its last, b the reverse
C29_Witness ==
    /\ step = "b"
    /\ ma[MAP_LENGTH - 1]
    /\ ~ma[0]
    /\ BitmapKB_get(bitmap_a, MAP_LENGTH - 1) = Ok(TRUE)
    /\ BitmapKB_get(bitmap_a, 0) = Ok(FALSE)
    /\ bitmap_a.words[WordCount - 1] = 0
    /\ mb[0]
    /\ ~mb[MAP_LENGTH - 1]
    /\ BitmapKB_get(bitmap_b, 0) = Ok(TRUE)
    /\ bitmap_b.words[0] = 0

\* the single-word call and the multi-word call on one word returned the
\* same bitmap, left the same receiver and ended in the same outcome
SameOnOneWord ==
    /\ ret = one_ret
    /\ one_result.words = [k \in {0} |-> IF op = "set" THEN bitmap.words
                                         ELSE result.words]

\* C25 as stated: for the same word width, every operation that the
\* single-word bitmap and the multi-word bitmap both define (default, new,
\* from_set, get, set, AND, OR, XOR, scalar add) returns the same result and
\* the same error outcome on a single-word bitmap of value v as on the
\* multi-word bitmap whose single word is v, for all inputs.
C25_OneWordIsSingleWord ==
    pc = "done" => SameOnOneWord

\* C25 amended: default, new, from_set, get, set, AND, OR and XOR return the
\* same result and the same error outcome on both, and so does a scalar add
\* whose sum fits the word.  A scalar add whose sum exceeds the word differs:
\* the multi-word add completes with the sum modulo 2^W and one warning,
\* while the single-word add faults in a build with overflow checks and, in a
\* build without them, returns the same wrapped sum without a warning.
C25_OneWordExceptOverflow ==
    pc = "done"
    => /\ op # "add_usize" => SameOnOneWord /\ warnings = 0
       /\ (op = "add_usize" /\ before.words + scalar <= usize_MAX)
             => /\ SameOnOneWord
                /\ ret = Unit
                /\ warnings = 0
                /\ result.words = before.words + scalar
       /\ (op = "add_usize" /\ before.words + scalar > usize_MAX)
             => /\ one_ret = Unit
                /\ one_result.words[0] =
                      (before.words + scalar) % (2 ^ ELEMENT_SIZE)
                /\ warnings = 1
                /\ overflow_checks => ret = Panic
                /\ ~overflow_checks
                      => /\ ret = Unit
                         /\ result.words = one_result.words[0]

\* the full word plus one in a build with overflow checks: the single word
\* faults, the multi-word bitmap wraps to zero with a warning
C25_Witness ==
    /\ pc = "done"
    /\ op = "add_usize"
    /\ overflow_checks
    /\ before.words = usize_MAX
    /\ scalar = 1
    /\ ret = Panic
    /\ one_ret = Unit
    /\ one_result.words[0] = 0
    /\ warnings = 1

====
